---------------------------- MODULE Spec2Model ----------------------------
(***************************************************************************)
(* Model of the Threads auto-posting loop of mie-realestate-app:           *)
(*   scripts/threads/poster.mjs         scheduler (main, selectCategory,   *)
(*                                      buildPrompt)                       *)
(*   scripts/threads/lib/ai-generator.mjs  (second half) Threads API       *)
(*                                      wrapper with container polling     *)
(*   scripts/threads/lib/threads-api.mjs   earlier Threads API wrapper     *)
(*   unnamed/part_006                   history store (multi account)      *)
(*   unnamed/part_002                   topic sources and trend prompt     *)
(*                                                                         *)
(* Time is counted in ticks, TicksPerDay ticks to the day.  Dates of Post  *)
(* Records are tick numbers (toISOString / new Date() round-trip exactly). *)
(***************************************************************************)
EXTENDS Integers, Sequences, FiniteSets, TLC

(***************************************************************************)
(* Bounds of the model                                                     *)
(***************************************************************************)
TicksPerDay == 1
MaxTime == 2
MaxPosts == 2
PoolSize == 1
MaxDepth == 2
MaxDen == 2

(***************************************************************************)
(* Program constants                                                       *)
(***************************************************************************)
MAX_RETRIES == 10
CATEGORY_COOLDOWN_DAYS == 1
TOPIC_COOLDOWN_DAYS == 14
HISTORY_RETENTION_DAYS == 90
LEARNING_WINDOW_DAYS == 30
ENGAGEMENT_BATCH == 10
DRY_RUN_ID == 0

VARIABLES
    \* ---- Publisher (one publishPost / publishReply call) ----
    apiModule,        \* which wrapper is linked: "polling" or "direct"
    pubKind,          \* "none", "post", "reply"
    pubState,         \* IDLE CREATING POLLING FINISHED PUBLISHING DONE ERROR
    container,        \* container.id returned by the create endpoint, 0 = none
    polls,            \* status queries issued in this call (loop counter i)
    lastResp,         \* last status response of this call
    readyHandle,      \* handle whose status query returned FINISHED, 0 = none
    publishedHandle,  \* creation_id passed to threads_publish, 0 = none
    pubError,         \* why the call threw
    retried           \* a "not found yet" response was retried in this call

VARIABLES
    \* ---- persisted state and clock ----
    now,              \* current time in ticks (new Date())
    history,          \* account -> posts of data/threads-history[-account].json
    \* ---- process configuration ----
    CATEGORIES,       \* config.mjs CATEGORIES: sequence of [id, weight]
    PERSONA,          \* threads-persona-<account>.json categories, <<>> if none
    ACCOUNT,          \* --account=
    DRY_RUN,          \* process.env.DRY_RUN
    FORCE_CATEGORY,   \* process.env.FORCE_CATEGORY, "none" if unset
    \* ---- the last scheduler run (main of poster.mjs) as it exited ----
    trendResult,      \* trendResult.trending as a sequence of keywords
    category,         \* category returned by selectCategory
    selPath,          \* branch of selectCategory that returned
    selRandom,        \* value of Math.random() in selectCategory
    cur,              \* category.id of the buildPrompt frame that returned
    depth,            \* number of nested buildPrompt calls
    topicKey,         \* topicKey returned by buildPrompt
    postText,         \* "none", "text" or "null"
    threadId,         \* 'dry-run' or the id the publish endpoint returned
    pubOutcome,       \* "none", "DONE" or the error publishPost threw
    appended,         \* Post Records the run has appended
    exitCode          \* -1 while no process runs, else the process exit status

runVars == <<now, history, CATEGORIES, PERSONA, ACCOUNT, DRY_RUN, FORCE_CATEGORY,
             trendResult, category, selPath, selRandom, cur, depth, topicKey,
             postText, threadId, pubOutcome, appended, exitCode>>

pubVars == <<apiModule, pubKind, pubState, container, polls, lastResp,
             readyHandle, publishedHandle, pubError, retried>>

VARIABLES
    \* ---- one process calling getAdjustedWeights ----
    adjusted,         \* what the last call returned, <<>> before the first call
    adjCalls          \* calls made so far

adjVars == <<adjusted, adjCalls>>

VARIABLES
    \* ---- one call of generatePost / generateArticlePost / generateReply ----
    genKind,          \* "post", "article", "reply": the function called
    isStealth,        \* the isStealth option the caller passes
    genPc,            \* "idle", "fetch", "validate", "done", "thrown"
    attempt,          \* the loop variable of the validation loop, 1..maxAttempts
    retry,            \* the loop variable of withRetry, 1..maxRetries
    requests,         \* fetch calls made to the generation service
    failed,           \* fetch calls that threw or answered with !res.ok
    rejected,         \* texts the validator has rejected so far
    text,             \* the text of the last answer, as the service sent it
    genResult         \* what the call returned, NoText before it returns

genVars == <<genKind, isStealth, genPc, attempt, retry, requests, failed, rejected, text, genResult>>

VARIABLES
    \* ---- the reply ledger and one run of the buzz reply script ----
    replyLedger,      \* replies of data/threads-reply-history.json
    buzzPc,           \* "idle", "loop", "end": position of main
    todayCount,       \* const todayCount = getTodayReplyCount()
    remainingSlots,   \* const remainingSlots
    candidates,       \* const candidates = await getRecentStealthPosts()
    buzzIdx,          \* position of the for loop in candidates
    repliedCount,     \* let repliedCount
    publishedCount,   \* publishReply calls of this run that succeeded
    buzzRuns,         \* runs started so far
    buzzTally,        \* candidates of this run skipped, not fetched, tried, failed
    buzzExit          \* exit status of the last run, -1 before it ends

buzzVars == <<replyLedger, buzzPc, todayCount, remainingSlots, candidates, buzzIdx,
              repliedCount, publishedCount, buzzRuns, buzzTally, buzzExit>>

VARIABLES
    \* ---- one classification of a post by the buzz reply script ----
    seenInsights,     \* insights: what getInsights answered
    buzzLevel,        \* const buzzLevel = getBuzzLevel(insights)
    replyDecision     \* the Math.random() drawn and what shouldReply returned

tierVars == <<seenInsights, buzzLevel, replyDecision>>

VARIABLES
    \* ---- one call of collectEngagement ----
    engPc,            \* "idle", "loop", "done"
    hasToken,         \* getCredentials finds the account's access token
    postsToCheck,     \* thread ids of getPostsNeedingEngagement(ACCOUNT)
    engIdx,           \* position of the for loop in postsToCheck.slice(0, 10)
    engFetched,       \* thread ids getInsights was called for, in order
    engFailed,        \* thread ids whose insights request failed
    collected         \* let collected

engVars == <<engPc, hasToken, postsToCheck, engIdx, engFetched, engFailed, collected>>

\* the components added after the scheduler, the publisher, the adjuster,
\* the generator and the buzz reply script
VARIABLES
    \* ---- processes calling saveHistory / updatePostEngagement on one file ----
    rPc,              \* per process: "ready", "read" (file loaded, not yet written), "done"
    rOp,              \* per process: the call it makes
    rLocal,           \* per process: const history = loadHistory(account)
    rOverlap          \* a process has loaded the file while another held a loaded copy

raceVars == <<rPc, rOp, rLocal, rOverlap>>

VARIABLES
    \* ---- what the last scheduler run asked of the platform's token endpoints ----
    tokenStatus,      \* "none" (no check), "valid", "refreshed", "invalid", "throw"
    refreshCalls,     \* calls of refresh_access_token made by the run
    generatorModule   \* the generatePost the scheduler is linked with

callVars == <<tokenStatus, refreshCalls, generatorModule>>

extVars == <<tierVars, engVars, raceVars, callVars>>

\* state of the components a scheduler run does not touch
otherVars == <<adjVars, genVars, buzzVars, extVars>>

InitAdjIdle ==
    /\ adjusted = <<>>
    /\ adjCalls = 0

\* no text yet: the value of a variable before its assignment
NoText == <<"undefined">>

InitGenIdle ==
    /\ genKind = "post"
    /\ isStealth = FALSE
    /\ genPc = "idle"
    /\ attempt = 0
    /\ retry = 0
    /\ requests = 0
    /\ failed = 0
    /\ rejected = 0
    /\ text = NoText
    /\ genResult = NoText

\* nothing counted yet
NoTally == [skipped |-> 0, fetchFailed |-> 0, attempted |-> 0, failed |-> 0,
            slept |-> 0, gap |-> 0]

InitBuzzIdle ==
    /\ replyLedger = <<>>
    /\ buzzPc = "idle"
    /\ todayCount = 0
    /\ remainingSlots = 0
    /\ candidates = <<>>
    /\ buzzIdx = 0
    /\ repliedCount = 0
    /\ publishedCount = 0
    /\ buzzRuns = 0
    /\ buzzTally = NoTally
    /\ buzzExit = 0 - 1

\* a metric the platform did not send (undefined)
Missing == 0 - 1

\* x || 0
OrZero(x) == IF x = Missing THEN 0 ELSE x

\* a Post Record without the engagement field, and one that is not a reply
NoSnapshot == [none |-> TRUE]
NoReply == 0

NoLevel == [level |-> "none", probability |-> 0]

InitTierIdle ==
    /\ seenInsights = [views |-> Missing, likes |-> Missing]
    /\ buzzLevel = NoLevel
    /\ replyDecision = [random |-> [num |-> 0, den |-> 1], reply |-> FALSE]

InitEngIdle ==
    /\ engPc = "idle"
    /\ hasToken = TRUE
    /\ postsToCheck = <<>>
    /\ engIdx = 0
    /\ engFetched = <<>>
    /\ engFailed = {}
    /\ collected = 0

InitRaceIdle ==
    /\ rPc = <<>>
    /\ rOp = <<>>
    /\ rLocal = <<>>
    /\ rOverlap = FALSE

InitCallIdle ==
    /\ tokenStatus = "none"
    /\ refreshCalls = 0
    /\ generatorModule = "plain"

InitExtIdle == InitTierIdle /\ InitEngIdle /\ InitRaceIdle /\ InitCallIdle

InitOther == InitAdjIdle /\ InitGenIdle /\ InitBuzzIdle /\ InitExtIdle

(***************************************************************************)
(* History store (unnamed/part_006)                                        *)
(***************************************************************************)
Accounts == {"business", "a1"}
STEALTH_ACCOUNTS == {"a1"}

NoScore == 0 - 1
\* a Post Record that has no engagementUpdatedAt field
NotUpdated == 0 - 1

\* cutoff = new Date(); cutoff.setDate(cutoff.getDate() - days)
Cutoff(t, days) == t - days * TicksPerDay

\* a history file is the sequence of its posts, or one of these when there
\* is no file or its text is not JSON
NoFile == <<[file |-> "missing"]>>
BadFile == <<[file |-> "unparseable"]>>

\* !existsSync(path), or JSON.parse throws
Unreadable(file) == file \in {NoFile, BadFile}

\* a load that answers an unreadable file with a record of its own
loadHistory_stale(hist, account) ==
    IF Unreadable(hist[account])
    THEN <<[date |-> 0, category |-> "aruaru", topicKey |-> <<"aruaru", 0, 0>>,
            threadId |-> 1, account |-> account]>>
    ELSE hist[account]

\* loadHistory(account): { posts: [] } when the file is missing or unparseable
loadHistory(hist, account) ==
    IF Unreadable(hist[account]) THEN <<>> ELSE hist[account]

\* a store that never prunes
Retained_all(p, t) == TRUE

\* retention predicate of saveHistory: new Date(p.date) > cutoff
Retained(p, t) == p.date > Cutoff(t, HISTORY_RETENTION_DAYS)

\* saveHistory(entry, account): load, push, prune, write
saveHistory_noAppend(hist, entry, account, t) == hist
\* a store with one history file for every account
saveHistory_shared(hist, entry, account, t) ==
    [a \in Accounts |->
        SelectSeq(Append(loadHistory(hist, account), entry), LAMBDA p : Retained(p, t))]
saveHistory(hist, entry, account, t) ==
    LET posts == Append(loadHistory(hist, account), entry)
    IN [hist EXCEPT ![account] = SelectSeq(posts, LAMBDA p : Retained(p, t))]

\* isCategoryCoolingDown(categoryId, account)
isCategoryCoolingDown_short(posts, categoryId, t) ==
    IF categoryId = "trend" THEN FALSE
    ELSE \E k \in 1..Len(posts) :
            posts[k].category = categoryId
            /\ posts[k].date > Cutoff(t, CATEGORY_COOLDOWN_DAYS) + 1
isCategoryCoolingDown(posts, categoryId, t) ==
    IF categoryId = "trend" THEN FALSE
    ELSE IF Len(posts) = 0 THEN FALSE
    ELSE \E k \in 1..Len(posts) :
            posts[k].category = categoryId /\ posts[k].date > Cutoff(t, CATEGORY_COOLDOWN_DAYS)

\* isTopicCoolingDown(topicKey, account)
isTopicCoolingDown(posts, key, t) ==
    \E k \in 1..Len(posts) :
        posts[k].topicKey = key /\ posts[k].date > Cutoff(t, TOPIC_COOLDOWN_DAYS)

\* a score that counts every interaction once
calcEngagementScore_unweighted(e) ==
    OrZero(e.replies) + OrZero(e.reposts) + OrZero(e.quotes) + OrZero(e.likes)

\* calcEngagementScore(engagement)
calcEngagementScore(e) ==
    OrZero(e.replies) * 4 + OrZero(e.reposts) * 2 + OrZero(e.quotes) * 3 + OrZero(e.likes) * 1

\* getPostsNeedingEngagement without the test of the post's age
getPostsNeedingEngagement_noAge(posts, t) ==
    {k \in 1..Len(posts) :
        /\ posts[k].threadId # DRY_RUN_ID
        /\ posts[k].repliedTo = NoReply
        /\ posts[k].engagement = NoSnapshot}

\* getPostsNeedingEngagement(account): indices of the posts to check
\* (oneDayAgo.setHours(getHours() - 24))
getPostsNeedingEngagement(posts, t) ==
    {k \in 1..Len(posts) :
        /\ posts[k].threadId # DRY_RUN_ID
        /\ posts[k].repliedTo = NoReply
        /\ posts[k].engagement = NoSnapshot
        /\ posts[k].date < t - TicksPerDay}

\* an update that also stamps the record's date
updatePostEngagement_redate(posts, id, e, t) ==
    LET hits == {k \in 1..Len(posts) : posts[k].threadId = id} IN
    IF hits = {} THEN posts
    ELSE LET k == CHOOSE j \in hits : \A i \in hits : j <= i
         IN [posts EXCEPT ![k].engagement = e,
                          ![k].engagementScore = calcEngagementScore(e),
                          ![k].engagementUpdatedAt = t,
                          ![k].date = t]

\* updatePostEngagement(threadId, engagement, account): the first post with
\* that threadId gets the snapshot's score; nothing is written if there is none
updatePostEngagement(posts, id, e, t) ==
    LET hits == {k \in 1..Len(posts) : posts[k].threadId = id} IN
    IF hits = {} THEN posts
    ELSE LET k == CHOOSE j \in hits : \A i \in hits : j <= i
         IN [posts EXCEPT ![k].engagement = e,
                          ![k].engagementScore = calcEngagementScore(e),
                          ![k].engagementUpdatedAt = t]

RECURSIVE SumOver(_, _)
SumOver(f, S) ==
    IF S = {} THEN 0
    ELSE LET x == CHOOSE y \in S : TRUE IN f[x] + SumOver(f, S \ {x})

RECURSIVE ProdOver(_, _)
ProdOver(f, S) ==
    IF S = {} THEN 1
    ELSE LET x == CHOOSE y \in S : TRUE IN f[x] * ProdOver(f, S \ {x})

\* analyzeCategoryPerformance(account): posts of the learning window that carry
\* engagement, as [cats, total, count]; cats = {} stands for null
analyzeCategoryPerformance_noWindow(posts, t) ==
    LET recent == {k \in 1..Len(posts) :
                     /\ posts[k].engagement # NoSnapshot
                     /\ posts[k].repliedTo = NoReply}
        cats   == {posts[k].category : k \in recent}
        of(c)  == {k \in recent : posts[k].category = c}
    IN [cats  |-> cats,
        total |-> [c \in cats |-> SumOver([k \in of(c) |-> posts[k].engagementScore], of(c))],
        count |-> [c \in cats |-> Cardinality(of(c))]]
analyzeCategoryPerformance(posts, t) ==
    LET recent == {k \in 1..Len(posts) :
                     /\ posts[k].date > Cutoff(t, LEARNING_WINDOW_DAYS)
                     /\ posts[k].engagement # NoSnapshot
                     /\ posts[k].repliedTo = NoReply}
        cats   == {posts[k].category : k \in recent}
        of(c)  == {k \in recent : posts[k].category = c}
    IN [cats  |-> cats,
        total |-> [c \in cats |-> SumOver([k \in of(c) |-> posts[k].engagementScore], of(c))],
        count |-> [c \in cats |-> Cardinality(of(c))]]

\* Math.max(0.5, Math.min(1.5, ratio)) for ratio = a / b (b > 0), as <<num, den>>
Multiplier_unclamped(a, b) == <<a, b>>
Multiplier(a, b) ==
    IF 2 * a <= b THEN <<1, 2>>
    ELSE IF 2 * a >= 3 * b THEN <<3, 2>>
    ELSE <<a, b>>

\* Math.round(w * num / den)
RoundMul(w, m) == (2 * w * m[1] + m[2]) \div (2 * m[2])

\* getAdjustedWeights(baseCategories, account)
getAdjustedWeights(base, posts, t) ==
    LET perf == analyzeCategoryPerformance(posts, t)
        n    == Cardinality(perf.cats)
        D    == ProdOver(perf.count, perf.cats)
        \* avgScore of c scaled by D, and the sum of the scaled averages
        A    == [c \in perf.cats |-> perf.total[c] * (D \div perf.count[c])]
        S    == SumOver(A, perf.cats)
    IN IF perf.cats = {} THEN base
       ELSE IF n < 3 THEN base
       ELSE IF S = 0 THEN base
       ELSE [i \in 1..Len(base) |->
               IF base[i].id \notin perf.cats \/ perf.count[base[i].id] < 2
               THEN base[i]
               ELSE [base[i] EXCEPT !.weight = RoundMul(base[i].weight, Multiplier(A[base[i].id] * n, S))]]

(***************************************************************************)
(* Selector (scripts/threads/poster.mjs selectCategory)                    *)
(***************************************************************************)
Undefined == [id |-> "undefined", weight |-> 0]
NoPersona == [present |-> FALSE, categories |-> <<>>]

Ids(cats) == {cats[i].id : i \in 1..Len(cats)}

\* CATEGORIES.find(c => c.id === FORCE_CATEGORY)
FindCategory(cats, id) ==
    LET hits == {i \in 1..Len(cats) : cats[i].id = id} IN
    IF hits = {} THEN Undefined
    ELSE cats[CHOOSE j \in hits : \A i \in hits : j <= i]

\* .map(c => ({...c, weight: (c.id === 'trend' && !trendAvailable) ? 0 : c.weight}))
\* .filter(c => c.weight > 0)
DropTrend(cats, trendAvailable) ==
    LET zeroed == [i \in 1..Len(cats) |->
                     IF cats[i].id = "trend" /\ ~trendAvailable
                     THEN [cats[i] EXCEPT !.weight = 0] ELSE cats[i]]
    IN SelectSeq(zeroed, LAMBDA c : c.weight > 0)

PrefixWeight(cats, i) == SumOver([k \in 1..i |-> cats[k].weight], 1..i)

\* the weighted draw: random = Math.random() * totalWeight with Math.random()
\* = r.num / r.den; the first candidate with random - (w1 + .. + wi) <= 0
Hit_strict(cats, i, r) == r.num * PrefixWeight(cats, Len(cats)) < r.den * PrefixWeight(cats, i)
Hit(cats, i, r) == r.num * PrefixWeight(cats, Len(cats)) <= r.den * PrefixWeight(cats, i)

WeightedDraw(available, r) ==
    LET hits == {i \in 1..Len(available) : Hit(available, i, r)} IN
    IF hits # {} THEN available[CHOOSE j \in hits : \A i \in hits : j <= i]
    ELSE available[Len(available)]

\* a selector that knows no persona
Candidates_adjustAll(cats, persona, posts, trendAvailable, t) ==
    DropTrend(getAdjustedWeights(cats, posts, t), trendAvailable)

\* categories of the run before cooldown filtering
Candidates(cats, persona, posts, trendAvailable, t) ==
    IF persona.present
    THEN DropTrend(SelectSeq(persona.categories, LAMBDA c : c.id # "site" /\ c.id # "kiji"),
                   trendAvailable)
    ELSE DropTrend(getAdjustedWeights(cats, posts, t), trendAvailable)

\* categories.filter(c => !isCategoryCoolingDown(c.id, ACCOUNT))
Available_all(categories, posts, t) == categories
Available(categories, posts, t) ==
    SelectSeq(categories, LAMBDA c : ~isCategoryCoolingDown(posts, c.id, t))

\* if (FORCE_CATEGORY) { forced = CATEGORIES.find(...); if (forced) return forced }
Forced_ignored(cats, force) == Undefined
Forced(cats, force) == IF force = "none" THEN Undefined ELSE FindCategory(cats, force)

\* selectCategory(trendAvailable): the returned category and the returning branch
selectCategory(cats, persona, force, posts, trendAvailable, t, r) ==
    LET forced     == Forced(cats, force)
        categories == Candidates(cats, persona, posts, trendAvailable, t)
        available  == Available(categories, posts, t)
    IN IF forced # Undefined THEN [cat |-> forced, path |-> "forced"]
       ELSE IF Len(available) = 0
       THEN [cat  |-> IF Len(categories) = 0 THEN Undefined
                      ELSE categories[((r.num * Len(categories)) \div r.den) + 1],
             path |-> "fallback"]
       ELSE [cat |-> WeightedDraw(available, r), path |-> "weighted"]

(***************************************************************************)
(* Prompt Builder (scripts/threads/poster.mjs buildPrompt)                 *)
(***************************************************************************)
NoKey == <<"none", 0, 0>>

\* new Date().getMonth() + 1, months of 30 days
Month(t) == ((t \div (30 * TicksPerDay)) % 12) + 1
\* new Date().toISOString().split('T')[0]
Day(t) == t \div TicksPerDay

PoolIdx == 0..(PoolSize - 1)

\* topicKey of the i-th topic of a topic source (`${category}:${index}`)
KeyOf(cat, i, t) == IF cat = "kisetsu" THEN <<cat, Month(t), i>> ELSE <<cat, i, 0>>

\* buildTrendPrompt(trend).topicKey = `trend:${trend.keyword}:${date}`
TrendKey(kw, t) == <<"trend", kw, Day(t)>>

\* branches that draw a topic, draw again if it is cooling down, then redirect
TwoDraw == {"aruaru", "koukai", "momegoto", "news", "hikaku", "kinshi", "gyakusetsu", "site"}
\* branches that draw once and redirect if it is cooling down
OneDraw == {"taiken", "mame", "kiji", "loan"}

\* category of the buildPrompt call a branch returns when it gives up
RedirectOf(cat) ==
    CASE cat \in {"aruaru", "hikaku", "kinshi", "loan", "shippai"} -> "koukai"
      [] cat = "kiji" -> "mame"
      [] OTHER -> "aruaru"

\* kisetsu: topics.find((t, i) => !isTopicCoolingDown(`kisetsu:${month}:${i}`)) || topicText
SeasonalAlt(posts, i, t) ==
    LET free == {j \in PoolIdx : ~isTopicCoolingDown(posts, KeyOf("kisetsu", j, t), t)}
    IN IF free = {} THEN i ELSE CHOOSE j \in free : \A k \in free : j <= k

\* one buildPrompt frame for category id cat: the set of things it can do,
\* [do |-> "return", key], [do |-> "redirect", to] or [do |-> "throw"];
\* i and j are the indices randomChoice draws
Frame(cat, stealth, posts, trend, t) ==
    LET cool(i) == isTopicCoolingDown(posts, KeyOf(cat, i, t), t)
        ret(i)  == [do |-> "return", key |-> KeyOf(cat, i, t), to |-> cat]
        redir   == [do |-> "redirect", key |-> NoKey, to |-> RedirectOf(cat)]
    IN CASE cat = "trend" ->
                IF Len(trend) = 0 THEN {[do |-> "throw", key |-> NoKey, to |-> cat]}
                ELSE {[do |-> "return", key |-> TrendKey(trend[1], t), to |-> cat]}
         [] cat \in {"kiji", "site"} /\ stealth -> {redir}
         [] cat \in TwoDraw ->
                {IF ~cool(i) THEN ret(i) ELSE IF ~cool(j) THEN ret(j) ELSE redir :
                    i \in PoolIdx, j \in PoolIdx}
         [] cat \in OneDraw ->
                {IF ~cool(i) THEN ret(i) ELSE redir : i \in PoolIdx}
         [] cat = "kisetsu" ->
                {IF cool(i) THEN ret(SeasonalAlt(posts, i, t)) ELSE ret(i) : i \in PoolIdx}
         [] OTHER -> {redir}

RECURSIVE buildPrompt(_, _, _, _, _, _)
\* buildPrompt(category, dataSources, trendResult) entered at nesting depth d:
\* the results it can return, [status, key, cat, redirects]; status "overflow"
\* is the RangeError of a call stack deeper than MaxDepth
buildPrompt(cat, d, stealth, posts, trend, t) ==
    UNION {
        CASE o.do = "return" ->
                {[status |-> "ok", key |-> o.key, cat |-> cat, redirects |-> d]}
          [] o.do = "throw" ->
                {[status |-> "throw", key |-> NoKey, cat |-> cat, redirects |-> d]}
          [] OTHER ->
                IF d >= MaxDepth
                THEN {[status |-> "overflow", key |-> NoKey, cat |-> cat, redirects |-> d]}
                ELSE buildPrompt(o.to, d + 1, stealth, posts, trend, t)
        : o \in Frame(cat, stealth, posts, trend, t)}

(***************************************************************************)
(* Scheduler (scripts/threads/poster.mjs main)                             *)
(***************************************************************************)
IS_STEALTH(account) == account \in STEALTH_ACCOUNTS

\* values of Math.random(): num / den in [0, 1)
Randoms == {r \in [num : 0..MaxDen, den : 1..MaxDen] : r.num < r.den}

Keywords == {1}

InsightSamples ==
    {[views |-> 1000, likes |-> 4, replies |-> 1, reposts |-> 0, quotes |-> 0]}

\* FORCE_CATEGORY of a run: unset, or a known category (an unknown one is
\* drawn in InitSel)
ForceValues == {"none", "aruaru", "trend"}

CategoryConfigs ==
    {<<[id |-> "trend", weight |-> 2], [id |-> "aruaru", weight |-> 3],
       [id |-> "kisetsu", weight |-> 1]>>}

PersonaConfigs ==
    {[present |-> TRUE,
      categories |-> <<[id |-> "aruaru", weight |-> 3], [id |-> "shippai", weight |-> 1],
                       [id |-> "site", weight |-> 2]>>]}

RECURSIVE ApplyInsights(_, _, _, _)
\* the for-loop of collectEngagement over the batch (a sequence of threadIds):
\* got[id].ok is FALSE when getInsights threw, else got[id].e is the snapshot
ApplyInsights(posts, batch, got, t) ==
    IF batch = <<>> THEN posts
    ELSE ApplyInsights(
            IF ~got[Head(batch)].ok THEN posts
            ELSE updatePostEngagement(posts, Head(batch), got[Head(batch)].e, t),
            Tail(batch), got, t)

\* getPostsNeedingEngagement(ACCOUNT) as the sequence of the thread ids
PostsToCheck(posts, t) ==
    LET need == getPostsNeedingEngagement(posts, t)
        seq  == SelectSeq([k \in 1..Len(posts) |-> k], LAMBDA k : k \in need)
    IN [i \in 1..Len(seq) |-> posts[seq[i]].threadId]

\* a loop over all of postsToCheck
FirstBatch_all(ids) == ids

\* postsToCheck.slice(0, 10)
FirstBatch(ids) ==
    SubSeq(ids, 1, IF Len(ids) < ENGAGEMENT_BATCH THEN Len(ids) ELSE ENGAGEMENT_BATCH)

\* postsToCheck.slice(0, 10) as the sequence of their threadIds
Batch(posts, t) == FirstBatch(PostsToCheck(posts, t))


(***************************************************************************)
(* Publisher                                                               *)
(***************************************************************************)
Handles == {1, 2}

NoResp == [http |-> 0, status |-> "none", dne |-> FALSE]

\* Responses of GET /{containerId}?fields=status,error_message as apiCall
\* sees them.  http = 200: res.ok, body carries status (and error_message);
\* http = 404 / 500: !res.ok, body carries error.message.  dne: the message
\* text (error_message, resp. error.message) contains "does not exist".
PollResponses ==
    [http : {200}, status : {"FINISHED", "IN_PROGRESS", "ERROR"}, dne : BOOLEAN]
    \cup [http : {404, 500}, status : {"none"}, dne : BOOLEAN]

\* try-block of one loop iteration of waitForContainerReady:
\* what is thrown inside the try, or what the iteration does otherwise
TryBlock(resp) ==
    IF resp.http # 200 THEN "throw_api"
    ELSE IF resp.status = "FINISHED" THEN "return"
    ELSE IF resp.status = "ERROR" THEN "throw_container"
    ELSE "next"

\* catch-block: e.status === 404 || e.message?.includes('does not exist')
Transient_only404(resp) == resp.http = 404
Transient(resp) == resp.http = 404 \/ resp.dne

\* outcome of one loop iteration
PollOutcome(resp) ==
    LET t == TryBlock(resp) IN
    IF t \in {"throw_api", "throw_container"}
    THEN IF Transient(resp) THEN "next" ELSE t
    ELSE t

\* loop condition of waitForContainerReady: for (let i = 0; i < maxRetries; i++)
LoopContinues_off(i) == i <= MAX_RETRIES
LoopContinues(i) == i < MAX_RETRIES

\* creation_id sent to threads_publish
PublishArg(c) == c

\* step after the create endpoint answered
AfterCreate(module) == IF module = "polling" THEN "POLLING" ELSE "PUBLISHING"

PubCreate ==
    /\ pubState = "CREATING"
    /\ \/ \E h \in Handles :
            /\ container' = h
            /\ pubState' = AfterCreate(apiModule)
            /\ publishedHandle' = IF AfterCreate(apiModule) = "PUBLISHING"
                                  THEN PublishArg(h) ELSE publishedHandle
            /\ pubError' = pubError
       \/ /\ pubState' = "ERROR"
          /\ pubError' = "create"
          /\ UNCHANGED <<container, publishedHandle>>
    /\ UNCHANGED <<apiModule, pubKind, polls, lastResp, readyHandle, retried>>
    /\ UNCHANGED runVars
    /\ UNCHANGED otherVars

PubPoll ==
    /\ pubState = "POLLING"
    /\ LoopContinues(polls)
    /\ \E resp \in PollResponses :
          LET o == PollOutcome(resp) IN
          /\ lastResp' = resp
          /\ polls' = polls + 1
          /\ readyHandle' = IF o = "return" THEN container ELSE readyHandle
          /\ pubState' = CASE o = "return" -> "FINISHED"
                           [] o = "next" -> IF LoopContinues(polls + 1)
                                            THEN "POLLING" ELSE "ERROR"
                           [] OTHER -> "ERROR"
          /\ pubError' = CASE o = "return" -> pubError
                           [] o = "next" -> IF LoopContinues(polls + 1)
                                            THEN pubError ELSE "timeout"
                           [] o = "throw_container" -> "container"
                           [] OTHER -> "status"
          /\ retried' = (retried \/ (resp.http # 200 /\ o = "next"))
    /\ UNCHANGED <<apiModule, pubKind, container, publishedHandle>>
    /\ UNCHANGED runVars
    /\ UNCHANGED otherVars

PubPublish ==
    /\ pubState = "FINISHED"
    /\ pubState' = "PUBLISHING"
    /\ publishedHandle' = PublishArg(container)
    /\ UNCHANGED <<apiModule, pubKind, container, polls, lastResp,
                   readyHandle, pubError, retried>>
    /\ UNCHANGED runVars
    /\ UNCHANGED otherVars

PubResult ==
    /\ pubState = "PUBLISHING"
    /\ \/ /\ pubState' = "DONE"
          /\ pubError' = pubError
       \/ /\ pubState' = "ERROR"
          /\ pubError' = "publish"
    /\ UNCHANGED <<apiModule, pubKind, container, polls, lastResp,
                   readyHandle, publishedHandle, retried>>
    /\ UNCHANGED runVars
    /\ UNCHANGED otherVars

\* entry of publishPost / publishReply
PubEnter(kind) ==
    /\ pubKind' = kind
    /\ pubState' = "CREATING"
    /\ container' = 0
    /\ polls' = 0
    /\ lastResp' = NoResp
    /\ readyHandle' = 0
    /\ publishedHandle' = 0
    /\ pubError' = "none"
    /\ retried' = FALSE
    /\ UNCHANGED apiModule

\* a caller outside the scheduler (publishReply is called by the reply process)
PubCall ==
    /\ pubState \in {"IDLE", "DONE", "ERROR"}
    /\ \E kind \in {"post", "reply"} : PubEnter(kind)
    /\ UNCHANGED runVars
    /\ UNCHANGED otherVars

\* waitForContainerReady entered with loop counter i: how it can end,
\* "ready" (returned) or the error it threw
RECURSIVE waitForContainerReady(_)
waitForContainerReady(i) ==
    IF ~LoopContinues(i) THEN {"timeout"}
    ELSE LET rest == waitForContainerReady(i + 1) IN
         UNION {LET o == PollOutcome(resp) IN
                CASE o = "return" -> {"ready"}
                  [] o = "next" -> rest
                  [] o = "throw_container" -> {"container"}
                  [] OTHER -> {"status"}
                : resp \in PollResponses}

\* publishPost(text, account) as a whole: "DONE" or the error it threw
publishPost(module) ==
    {"create"} \cup
    UNION {IF w = "ready" THEN {"DONE", "publish"} ELSE {w}
            : w \in IF AfterCreate(module) = "POLLING"
                    THEN waitForContainerReady(0) ELSE {"ready"}}

ApiModules == {"polling", "direct"}

\* the outcomes of publishPost, per linked wrapper
publishPostOutcomes == [module \in ApiModules |-> publishPost(module)]

InitPub ==
    /\ apiModule \in ApiModules
    /\ pubKind = "none"
    /\ pubState = "IDLE"
    /\ container = 0
    /\ polls = 0
    /\ lastResp = NoResp
    /\ readyHandle = 0
    /\ publishedHandle = 0
    /\ pubError = "none"
    /\ retried = FALSE

NextPub == PubCall \/ PubCreate \/ PubPoll \/ PubPublish \/ PubResult


(***************************************************************************)
(* Scheduler, continued: one run of main                                   *)
(***************************************************************************)
\* answers of GET /me and of GET /refresh_access_token
MeAnswers == {"ok", "401", "error"}
RefreshAnswers == {"ok", "error"}

\* a token check that gives up without trying to refresh
checkAndRefreshToken_noRefresh(me, refresh) ==
    CASE me = "ok" -> [status |-> "valid", refreshes |-> 0]
      [] me = "401" -> [status |-> "invalid", refreshes |-> 0]
      [] OTHER -> [status |-> "throw", refreshes |-> 0]

\* checkAndRefreshToken(account): {valid, refreshed}; an error of /me other
\* than 401 is thrown again
checkAndRefreshToken(me, refresh) ==
    CASE me = "ok" -> [status |-> "valid", refreshes |-> 0]
      [] me = "401" ->
            IF refresh = "ok" THEN [status |-> "refreshed", refreshes |-> 1]
            ELSE [status |-> "invalid", refreshes |-> 1]
      [] OTHER -> [status |-> "throw", refreshes |-> 0]

\* id the publish endpoint returns for a new post: fresh for the account
NextId(posts) ==
    1 + SumOver([k \in 1..Len(posts) |-> IF posts[k].threadId # DRY_RUN_ID THEN 1 ELSE 0],
                1..Len(posts))

\* the Post Record main hands to saveHistory
Entry(cat, key, id, account, t) ==
    [date |-> t, category |-> cat, topicKey |-> key, threadId |-> id,
     account |-> account, repliedTo |-> NoReply,
     engagement |-> NoSnapshot, engagementScore |-> NoScore,
     engagementUpdatedAt |-> NotUpdated]

\* locals of main when the process starts; hist and t are the history file
\* and the clock as the run sees them
Started(dry, force) ==
    [dry |-> dry, force |-> force, hist |-> history, t |-> now,
     trendResult |-> <<>>, category |-> Undefined, selPath |-> "none",
     cur |-> "none", depth |-> 0,
     topicKey |-> NoKey, postText |-> "none", threadId |-> DRY_RUN_ID,
     pubOutcome |-> "none", appended |-> 0, exitCode |-> 0 - 1,
     tokenStatus |-> "none", refreshCalls |-> 0]

\* process.exit(code), resp. main().catch(... process.exit(1))
Exit(m, code) == [m EXCEPT !.exitCode = code]

\* a main that stores the category of the branch that built the prompt
SaveStep_branch(m) ==
    Exit([m EXCEPT !.hist = saveHistory(m.hist,
                                Entry(m.cur, m.topicKey, m.threadId, ACCOUNT, m.t),
                                ACCOUNT, m.t),
                   !.appended = m.appended + 1], 0)

\* saveHistory({date, category: category.id, topicKey, threadId, account}, ACCOUNT)
\* at the end of main
SaveStep(m) ==
    Exit([m EXCEPT !.hist = saveHistory(m.hist,
                                Entry(m.category.id, m.topicKey, m.threadId, ACCOUNT, m.t),
                                ACCOUNT, m.t),
                   !.appended = m.appended + 1], 0)

\* a main that publishes with the dry-run switch on as well
PublishStep_always(m) ==
    {IF o = "DONE"
     THEN SaveStep([m EXCEPT !.pubOutcome = o,
                             !.threadId = NextId(loadHistory(m.hist, ACCOUNT))])
     ELSE Exit([m EXCEPT !.pubOutcome = o], 1)
     : o \in publishPostOutcomes[apiModule]}

\* let threadId = 'dry-run'; if (!DRY_RUN) threadId = (await publishPost(...)).id
PublishStep(m) ==
    IF m.dry THEN {SaveStep(m)}
    ELSE {IF o = "DONE"
          THEN SaveStep([m EXCEPT !.pubOutcome = o,
                                  !.threadId = NextId(loadHistory(m.hist, ACCOUNT))])
          ELSE Exit([m EXCEPT !.pubOutcome = o], 1)
          : o \in publishPostOutcomes[apiModule]}

\* what generatePost does: a text is returned or callClaude throws; the
\* generatePost of lib/ai-generator.mjs ("plain") returns null for no
\* account, the generatePost main hands isStealth to ("options") returns
\* null for a stealth account whose attempts are used up
GeneratorModules == {"plain", "options"}

\* generatePost(userPrompt, {systemPrompt, isStealth}): null when the
\* attempts of a stealth account are used up
StealthNull ==
    IF generatorModule = "options" /\ IS_STEALTH(ACCOUNT) THEN {"null"} ELSE {}

GenerateOutcomes == {"text", "throw"} \cup StealthNull

\* a main that goes on to publish whatever generatePost returned
GenerateStep_publishNull(m) ==
    UNION {
        CASE out \in {"text", "null"} -> PublishStep([m EXCEPT !.postText = out])
          [] OTHER -> {Exit(m, 1)}
        : out \in GenerateOutcomes}

\* postText = await generatePost(...); null ends the run with exit status 0
GenerateStep(m) ==
    UNION {
        CASE out = "text" -> PublishStep([m EXCEPT !.postText = out])
          [] out = "null" -> {Exit([m EXCEPT !.postText = out], 0)}
          [] OTHER -> {Exit(m, 1)}
        : out \in GenerateOutcomes}

\* const { userPrompt, topicKey } = buildPrompt(category, dataSources, trendResult)
BuildStep(m) ==
    UNION {
        LET b == [m EXCEPT !.cur = res.cat, !.depth = res.redirects, !.topicKey = res.key]
        IN IF res.status = "ok" THEN GenerateStep(b) ELSE {Exit(b, 1)}
        : res \in buildPrompt(m.category.id, 0, IS_STEALTH(ACCOUNT),
                              loadHistory(m.hist, ACCOUNT), m.trendResult, m.t)}

\* const category = selectCategory(trendAvailable); category.id
SelectStep(m) ==
    UNION {
        LET sel == selectCategory(CATEGORIES, PERSONA, m.force,
                                  loadHistory(m.hist, ACCOUNT),
                                  Len(m.trendResult) > 0, m.t, r)
            s   == [m EXCEPT !.category = sel.cat, !.selPath = sel.path]
        IN IF sel.cat = Undefined THEN {Exit(s, 1)} ELSE BuildStep(s)
        : r \in Randoms}

\* if (!DRY_RUN && !IS_STEALTH) trendResult = await scanTrends(): the trending
\* keywords, none when the scan found nothing or threw
ScanStep(m) ==
    UNION {SelectStep([m EXCEPT !.trendResult = tr])
            : tr \in IF m.dry \/ IS_STEALTH(ACCOUNT) THEN {<<>>}
                     ELSE {<<>>} \cup {<<k>> : k \in Keywords}}

\* if (!DRY_RUN) { try { await collectEngagement() } catch {} }
CollectStep(m) ==
    IF m.dry THEN ScanStep(m)
    ELSE LET posts == loadHistory(m.hist, ACCOUNT)
             batch == Batch(posts, m.t)
             ids   == {batch[i] : i \in 1..Len(batch)}
         IN UNION {ScanStep([m EXCEPT !.hist[ACCOUNT] =
                                IF batch = <<>> THEN @
                                ELSE ApplyInsights(posts, batch, got, m.t)])
                    : got \in [ids -> [ok : BOOLEAN, e : InsightSamples]]}

\* if (!DRY_RUN) { checkAndRefreshToken(ACCOUNT); invalid: process.exit(1) }
TokenStep(m) ==
    IF m.dry THEN CollectStep(m)
    ELSE UNION {LET tok == checkAndRefreshToken(me, refresh)
                    c   == [m EXCEPT !.tokenStatus = tok.status,
                                     !.refreshCalls = tok.refreshes]
                IN IF tok.status \in {"valid", "refreshed"} THEN CollectStep(c)
                   ELSE {Exit(c, 1)}
                 : me \in MeAnswers, refresh \in RefreshAnswers}

\* main(): every way one process can run to its exit
main(dry, force) == TokenStep(Started(dry, force))

\* node poster.mjs --account=ACCOUNT, from process start to process exit
Run ==
    /\ exitCode = 0 - 1
    /\ Len(history[ACCOUNT]) < MaxPosts
    /\ \E dry \in BOOLEAN, force \in ForceValues :
          \E m \in main(dry, force) :
             /\ DRY_RUN' = m.dry
             /\ FORCE_CATEGORY' = m.force
             /\ history' = m.hist
             /\ now' = m.t
             /\ trendResult' = m.trendResult
             /\ category' = m.category
             /\ selPath' = m.selPath
             /\ cur' = m.cur
             /\ depth' = m.depth
             /\ topicKey' = m.topicKey
             /\ postText' = m.postText
             /\ threadId' = m.threadId
             /\ pubOutcome' = m.pubOutcome
             /\ appended' = m.appended
             /\ exitCode' = m.exitCode
             /\ tokenStatus' = m.tokenStatus
             /\ refreshCalls' = m.refreshCalls
    /\ UNCHANGED <<CATEGORIES, PERSONA, ACCOUNT, selRandom, generatorModule>>
    /\ UNCHANGED pubVars
    /\ UNCHANGED <<adjVars, genVars, buzzVars, tierVars, engVars, raceVars>>

\* the process is gone, and its locals with it
ProcessExit ==
    /\ exitCode # 0 - 1
    /\ DRY_RUN' = FALSE
    /\ FORCE_CATEGORY' = "none"
    /\ trendResult' = <<>>
    /\ category' = Undefined
    /\ selPath' = "none"
    /\ cur' = "none"
    /\ depth' = 0
    /\ topicKey' = NoKey
    /\ postText' = "none"
    /\ threadId' = DRY_RUN_ID
    /\ pubOutcome' = "none"
    /\ appended' = 0
    /\ exitCode' = 0 - 1
    /\ tokenStatus' = "none"
    /\ refreshCalls' = 0
    /\ UNCHANGED <<now, history, CATEGORIES, PERSONA, ACCOUNT, selRandom, generatorModule>>
    /\ UNCHANGED pubVars
    /\ UNCHANGED <<adjVars, genVars, buzzVars, tierVars, engVars, raceVars>>

\* time passes between two runs
Tick ==
    /\ exitCode = 0 - 1
    /\ now < MaxTime
    /\ now' = now + 1
    /\ UNCHANGED <<history, CATEGORIES, PERSONA, ACCOUNT, DRY_RUN, FORCE_CATEGORY,
                   trendResult, category, selPath, selRandom, cur, depth, topicKey,
                   postText, threadId, pubOutcome, appended, exitCode>>
    /\ UNCHANGED pubVars
    /\ UNCHANGED otherVars

InitRun ==
    /\ now = 0
    /\ history = [a \in Accounts |-> <<>>]
    /\ DRY_RUN = FALSE
    /\ FORCE_CATEGORY = "none"
    /\ trendResult = <<>>
    /\ category = Undefined
    /\ selPath = "none"
    /\ selRandom = [num |-> 0, den |-> 1]
    /\ cur = "none"
    /\ depth = 0
    /\ topicKey = NoKey
    /\ postText = "none"
    /\ threadId = DRY_RUN_ID
    /\ pubOutcome = "none"
    /\ appended = 0
    /\ exitCode = 0 - 1

InitConfig ==
    /\ CATEGORIES \in CategoryConfigs
    /\ ACCOUNT \in Accounts
    /\ PERSONA \in IF IS_STEALTH(ACCOUNT) THEN PersonaConfigs ELSE {NoPersona}

Init == InitConfig /\ InitRun /\ InitPub /\ InitOther

Next == Run \/ ProcessExit \/ Tick

vars == <<runVars, pubVars, otherVars>>

Spec == Init /\ [][Next]_vars

\* the scheduler linked with the generatePost that takes the isStealth option
InitOptions ==
    /\ InitConfig
    /\ InitRun
    /\ InitPub
    /\ InitAdjIdle
    /\ InitGenIdle
    /\ InitBuzzIdle
    /\ InitTierIdle
    /\ InitEngIdle
    /\ InitRaceIdle
    /\ tokenStatus = "none"
    /\ refreshCalls = 0
    /\ generatorModule = "options"

SpecOptions == InitOptions /\ [][Next]_vars

SpecPub == Init /\ [][NextPub]_vars


(***************************************************************************)
(* selectCategory on its own: the inputs are drawn, then it is called once *)
(***************************************************************************)
SelectorConfigs ==
    {<<[id |-> "a", weight |-> 10], [id |-> "b", weight |-> 10]>>,
     <<[id |-> "a", weight |-> 10], [id |-> "b", weight |-> 0]>>,
     <<[id |-> "trend", weight |-> 2], [id |-> "aruaru", weight |-> 3]>>}

\* ids the history of the account can hold records of
RecordIds == IF PERSONA.present THEN Ids(PERSONA.categories) ELSE Ids(CATEGORIES)

\* histories earlier runs can have left: up to two records, oldest first
SelectorHistories ==
    LET recs == {Entry(c, KeyOf(c, 0, d), DRY_RUN_ID, ACCOUNT, d) :
                    c \in RecordIds, d \in 0..MaxTime}
    IN {<<>>} \cup {<<e>> : e \in recs}
       \cup {<<p[1], p[2]>> : p \in {q \in recs \X recs : q[1].date <= q[2].date}}

InitSel ==
    /\ CATEGORIES \in SelectorConfigs
    /\ ACCOUNT \in Accounts
    /\ PERSONA \in IF IS_STEALTH(ACCOUNT) THEN PersonaConfigs ELSE {NoPersona}
    /\ now = MaxTime
    /\ history \in {[a \in Accounts |-> IF a = ACCOUNT THEN h ELSE <<>>] :
                        h \in SelectorHistories}
    /\ DRY_RUN = FALSE
    /\ FORCE_CATEGORY \in {"none", "nosuch"} \cup Ids(CATEGORIES)
    /\ trendResult \in {<<>>} \cup {<<k>> : k \in Keywords}
    /\ category = Undefined
    /\ selPath = "none"
    /\ selRandom = [num |-> 0, den |-> 1]
    /\ cur = "none"
    /\ depth = 0
    /\ topicKey = NoKey
    /\ postText = "none"
    /\ threadId = DRY_RUN_ID
    /\ pubOutcome = "none"
    /\ appended = 0
    /\ exitCode = 0 - 1
    /\ InitPub
    /\ InitOther

\* const category = selectCategory(trendAvailable)
Select ==
    /\ selPath = "none"
    /\ \E r \in Randoms :
          LET sel == selectCategory(CATEGORIES, PERSONA, FORCE_CATEGORY,
                                    loadHistory(history, ACCOUNT),
                                    Len(trendResult) > 0, now, r)
          IN /\ category' = sel.cat
             /\ selPath' = sel.path
             /\ selRandom' = r
    /\ UNCHANGED <<now, history, CATEGORIES, PERSONA, ACCOUNT, DRY_RUN, FORCE_CATEGORY,
                   trendResult, cur, depth, topicKey, postText, threadId, pubOutcome,
                   appended, exitCode>>
    /\ UNCHANGED pubVars
    /\ UNCHANGED otherVars

NextSel == Select

SpecSel == InitSel /\ [][NextSel]_vars

(***************************************************************************)
(* Claims about the Publisher (checked under SpecPub)                      *)
(***************************************************************************)

\* C2: within every publish call the publish endpoint is called only for the
\* container handle of that call, and only after a status query of that
\* handle returned FINISHED (CREATING, POLLING, FINISHED, PUBLISHING, DONE).
C2_PublishOnlyAfterReady ==
    /\ publishedHandle # 0 => (readyHandle = publishedHandle /\ container = publishedHandle)
    /\ pubState \in {"PUBLISHING", "DONE"} => (readyHandle # 0 /\ readyHandle = container)

\* C3: waitForContainerReady issues at most MAX_RETRIES status queries; when
\* the budget is used up and no query returned FINISHED the call has ended
\* in an error ("never became ready" unless the last query was itself fatal)
\* and the publish endpoint was not called.
C3_PollingBounded ==
    /\ polls <= MAX_RETRIES
    /\ (polls = MAX_RETRIES /\ readyHandle = 0) =>
          /\ pubState = "ERROR"
          /\ publishedHandle = 0
          /\ pubError \in {"timeout", "status", "container"}
          /\ (lastResp.status = "IN_PROGRESS" => pubError = "timeout")
    /\ pubError = "timeout" => (polls = MAX_RETRIES /\ readyHandle = 0 /\ publishedHandle = 0)

C3_Witness ==
    pubState = "ERROR" /\ pubError = "timeout" /\ polls = MAX_RETRIES /\ readyHandle = 0

\* C4: a status response with status ERROR ends the publish call at once with
\* the fatal container error, whatever the error message text is: the call is
\* not left polling and the publish endpoint is not called.
C4_ErrorStatusIsFatal ==
    lastResp.status = "ERROR" =>
        (pubState = "ERROR" /\ pubError = "container" /\ publishedHandle = 0)

\* C5: a "not found yet" response to a status query (HTTP 404, or a message
\* containing "does not exist") does not end the call: polling goes on while
\* retry budget remains (and ends in "never became ready" when it is used up);
\* any other failed status query ends the call with a fatal error and the
\* publish endpoint is not called.
C5_NotFoundIsTransient ==
    /\ (lastResp.http \in {404, 500} /\ (lastResp.http = 404 \/ lastResp.dne)) =>
          \/ (pubState = "POLLING" /\ polls < MAX_RETRIES /\ ENABLED PubPoll)
          \/ (pubState = "ERROR" /\ pubError = "timeout" /\ polls = MAX_RETRIES)
    /\ (lastResp.http \in {404, 500} /\ ~(lastResp.http = 404 \/ lastResp.dne)) =>
          (pubState = "ERROR" /\ pubError = "status" /\ publishedHandle = 0)

\* a call that retried after "not found yet" and was then published
C5_Witness ==
    pubState = "DONE" /\ retried /\ lastResp.status = "FINISHED" /\ polls >= 2
(***************************************************************************)
(* Claims about scheduler runs (checked under Spec)                        *)
(***************************************************************************)
\* the step of Run: a process ran from start to exit
RunStep == exitCode = 0 - 1 /\ exitCode' # 0 - 1

\* the step appended exactly one Post Record, made by this run, to the
\* history of the account (and none to any other history)
AppendedOne ==
    LET old == history[ACCOUNT]
        new == history'[ACCOUNT]
    IN /\ Len(new) = Len(old) + 1
       /\ new[Len(new)] = Entry(category'.id, topicKey', threadId', ACCOUNT, now')
       /\ \A a \in Accounts \ {ACCOUNT} : history'[a] = history[a]

\* the step appended no Post Record to any history
AppendedNone == \A a \in Accounts : Len(history'[a]) = Len(history[a])

\* C1 as stated: a run appends a Post Record if and only if publishPost
\* reached DONE; every other run appends none.
C1_AppendIffDone ==
    [][RunStep => /\ pubOutcome' = "DONE" => AppendedOne
                  /\ pubOutcome' # "DONE" => AppendedNone]_vars

\* C1: in a run with the dry-run switch off a Post Record is appended if and
\* only if publishPost reached DONE: a run whose publish threw (create,
\* status query, container error, retry budget used up, publish) and a run
\* that ended before the publish append no Post Record; a run with the
\* dry-run switch on never calls publishPost.
C1_PublishAtomicity ==
    [][RunStep => /\ ~DRY_RUN' => /\ pubOutcome' = "DONE" => AppendedOne
                                  /\ pubOutcome' # "DONE" => AppendedNone
                  /\ DRY_RUN' => pubOutcome' = "none"]_vars

\* a run that published and appended its record, and the record carries the
\* id the platform returned
C1_Witness ==
    /\ exitCode = 0 /\ ~DRY_RUN /\ pubOutcome = "DONE" /\ appended = 1
    /\ Len(history[ACCOUNT]) >= 1
    /\ history[ACCOUNT][Len(history[ACCOUNT])].threadId = threadId
    /\ threadId # DRY_RUN_ID

\* two Post Records are within `days` days of each other
Within(p, q, days) ==
    /\ q.date - p.date < days * TicksPerDay
    /\ p.date - q.date < days * TicksPerDay

\* C6 as stated: no history holds two Post Records of the same category,
\* other than "trend", dated within 1 day of each other.
C6_NoCategoryRepeat ==
    \A a \in Accounts : \A i, j \in 1..Len(history[a]) :
        (i < j /\ history[a][i].category = history[a][j].category
               /\ history[a][i].category # "trend")
        => ~Within(history[a][i], history[a][j], CATEGORY_COOLDOWN_DAYS)

\* C6: a Post Record whose category the Selector returned from the weighted
\* draw (not from the all-cooling fallback, not from a manual override) and
\* is not "trend" is never dated within 1 day of an earlier Post Record of the
\* same account with the same category.
C6_CooldownOfWeightedDraw ==
    (exitCode = 0 /\ appended = 1 /\ selPath = "weighted" /\ category.id # "trend")
    => LET posts == history[ACCOUNT]
           n     == Len(posts)
       IN /\ n >= 1
          /\ posts[n].category = category.id
          /\ \A k \in 1..(n - 1) :
                posts[k].category = posts[n].category
                => ~Within(posts[k], posts[n], CATEGORY_COOLDOWN_DAYS)

\* a weighted draw returned a category the account has posted before
C6_Witness ==
    /\ exitCode = 0 /\ appended = 1 /\ selPath = "weighted" /\ category.id # "trend"
    /\ Len(history[ACCOUNT]) >= 2
    /\ history[ACCOUNT][1].category = category.id

\* C7: no history holds two Post Records with the same topicKey dated within
\* 14 days of each other, whatever branch of buildPrompt made the keys.
C7_NoTopicRepeat ==
    \A a \in Accounts : \A i, j \in 1..Len(history[a]) :
        (i < j /\ history[a][i].topicKey = history[a][j].topicKey)
        => ~Within(history[a][i], history[a][j], TOPIC_COOLDOWN_DAYS)

(***************************************************************************)
(* Claims about selectCategory (checked under SpecSel)                     *)
(***************************************************************************)
Selected == selPath # "none"

\* candidates [{id:'a',weight:10},{id:'b',weight:10}], no cooldowns, no
\* override, and Math.random() * totalWeight = 10 exactly
BoundaryCase ==
    /\ Selected
    /\ CATEGORIES = <<[id |-> "a", weight |-> 10], [id |-> "b", weight |-> 10]>>
    /\ ~PERSONA.present
    /\ FORCE_CATEGORY = "none"
    /\ \A c \in {"a", "b"} : ~isCategoryCoolingDown(history[ACCOUNT], c, now)
    /\ selRandom.num * 20 = selRandom.den * 10

\* C8 as stated: at the boundary the Selector returns 'b'.
C8_BoundaryReturnsB == BoundaryCase => category.id = "b"

\* C8: at the boundary the Selector returns 'a', the first candidate that
\* drives the running threshold to 0 or below.
C8_BoundaryReturnsA == BoundaryCase => (category.id = "a" /\ selPath = "weighted")

C8_Witness == BoundaryCase /\ category.id = "a"

\* the non-zero-weight categories of the call, and those not cooling down
NonZero ==
    Candidates(CATEGORIES, PERSONA, history[ACCOUNT], Len(trendResult) > 0, now)

Free ==
    {i \in 1..Len(NonZero) : ~isCategoryCoolingDown(history[ACCOUNT], NonZero[i].id, now)}

Availability ==
    /\ Free = {} => \E i \in 1..Len(NonZero) : category = NonZero[i]
    /\ Free # {} => (\E i \in Free : category = NonZero[i]) /\ category.weight > 0

\* C9 as stated: when every non-zero-weight category is cooling down a
\* category is still returned, one of them; when one is not cooling down the
\* returned category is not cooling down and has weight greater than 0.
C9_Availability == Selected => Availability

\* C9: the same, for calls in which no manual override names a known category
\* and at least one category has non-zero weight.
C9_AvailabilityWithoutOverride ==
    (Selected /\ FORCE_CATEGORY \notin Ids(CATEGORIES) /\ Len(NonZero) > 0)
    => Availability

\* every non-zero-weight category is cooling down and one of them is returned
C9_Witness ==
    /\ Selected /\ FORCE_CATEGORY \notin Ids(CATEGORIES)
    /\ Len(NonZero) > 0 /\ Free = {}
    /\ selPath = "fallback"
    /\ isCategoryCoolingDown(history[ACCOUNT], category.id, now)

\* C10: an override naming a known category is returned as configured, for
\* every history, weight configuration, account type and trend availability;
\* an override naming an unknown category changes nothing: the call returns
\* what it returns without override.
C10_ForcedCategory ==
    Selected =>
        /\ FORCE_CATEGORY \in Ids(CATEGORIES) =>
              /\ category.id = FORCE_CATEGORY
              /\ \E i \in 1..Len(CATEGORIES) : category = CATEGORIES[i]
        /\ FORCE_CATEGORY \notin Ids(CATEGORIES) =>
              [cat |-> category, path |-> selPath] =
                 selectCategory(CATEGORIES, PERSONA, "none", history[ACCOUNT],
                                Len(trendResult) > 0, now, selRandom)

\* the override returned a category that is cooling down, on a persona account
\* whose own categories do not hold it
C10_Witness ==
    /\ Selected /\ FORCE_CATEGORY \in Ids(CATEGORIES)
    /\ category.id = FORCE_CATEGORY
    /\ PERSONA.present
    /\ FORCE_CATEGORY \notin Ids(PERSONA.categories)

\* an unknown override on a call that then took the weighted draw
C10_WitnessUnknown ==
    Selected /\ FORCE_CATEGORY = "nosuch" /\ selPath = "weighted"

(***************************************************************************)
(* Claims about the trend signal (checked under Spec)                      *)
(***************************************************************************)
\* C11: a run without trend signal (scan empty, failed or skipped) never gets
\* "trend" from selectCategory, so buildPrompt's trend branch is never entered
\* with an empty trend list.
C11_NoTrendWithoutSignal ==
    (exitCode # 0 - 1 /\ selPath # "none" /\ Len(trendResult) = 0)
    => (category.id # "trend" /\ cur # "trend")

(***************************************************************************)
(* getAdjustedWeights on its own: a history is drawn, then it is called    *)
(***************************************************************************)
MaxSamples == 2
MaxCalls == 2

AdjusterConfigs ==
    {<<[id |-> "x", weight |-> 10], [id |-> "y", weight |-> 3], [id |-> "z", weight |-> 1]>>}

\* engagement scores of the drawn Post Records
AdjusterScores == {0, 10, 20, 1000}

\* the clock of the call: a record dated 0 lies exactly on the window's cutoff
AdjusterNow == LEARNING_WINDOW_DAYS * TicksPerDay

\* the scores of one category's records with engagement, in ascending order
SampleLists ==
    {s \in UNION {[1..k -> AdjusterScores] : k \in 0..MaxSamples} :
        \A i \in 1..(Len(s) - 1) : s[i] <= s[i + 1]}

\* a Post Record of category c dated d; sc = NoScore: no engagement collected
Scored(c, sc, d) ==
    [Entry(c, KeyOf(c, 0, d), 1, "business", d) EXCEPT
        !.engagement = IF sc = NoScore THEN NoSnapshot
                       ELSE [views |-> 0, likes |-> sc, replies |-> 0, reposts |-> 0,
                             quotes |-> 0],
        !.engagementScore = sc,
        !.engagementUpdatedAt = IF sc = NoScore THEN NotUpdated ELSE d]

RecordsOf(c, samples) == [i \in 1..Len(samples) |-> Scored(c, samples[i], AdjusterNow)]

\* records the window or the engagement filter leaves out
ExtraRecords ==
    {<<>>, <<Scored("x", 1000, 0)>>, <<Scored("x", NoScore, AdjusterNow)>>,
     <<Scored("x", 1000, 0), Scored("x", NoScore, AdjusterNow)>>}

AdjusterHistories ==
    {extra \o RecordsOf("x", sx) \o RecordsOf("y", sy) \o RecordsOf("z", sz) :
        extra \in ExtraRecords, sx \in SampleLists, sy \in SampleLists, sz \in SampleLists}

InitAdj ==
    /\ CATEGORIES \in AdjusterConfigs
    /\ ACCOUNT = "business"
    /\ PERSONA = NoPersona
    /\ now = AdjusterNow
    /\ history \in {[a \in Accounts |-> IF a = ACCOUNT THEN h ELSE <<>>] :
                        h \in AdjusterHistories}
    /\ DRY_RUN = FALSE
    /\ FORCE_CATEGORY = "none"
    /\ trendResult = <<>>
    /\ category = Undefined
    /\ selPath = "none"
    /\ selRandom = [num |-> 0, den |-> 1]
    /\ cur = "none"
    /\ depth = 0
    /\ topicKey = NoKey
    /\ postText = "none"
    /\ threadId = DRY_RUN_ID
    /\ pubOutcome = "none"
    /\ appended = 0
    /\ exitCode = 0 - 1
    /\ InitPub
    /\ InitOther

\* return { ...cat, weight: adjustedWeight }: the base list after the call
CopyOnAdjust_inPlace(base, result) == result
CopyOnAdjust(base, result) == base

\* const adjustedCategories = getAdjustedWeights(CATEGORIES, ACCOUNT)
Adjust ==
    /\ adjCalls < MaxCalls
    /\ LET result == getAdjustedWeights(CATEGORIES, loadHistory(history, ACCOUNT), now)
       IN /\ adjusted' = result
          /\ CATEGORIES' = CopyOnAdjust(CATEGORIES, result)
    /\ adjCalls' = adjCalls + 1
    /\ UNCHANGED <<genVars, buzzVars, extVars>>
    /\ UNCHANGED <<now, history, PERSONA, ACCOUNT, DRY_RUN, FORCE_CATEGORY,
                   trendResult, category, selPath, selRandom, cur, depth, topicKey,
                   postText, threadId, pubOutcome, appended, exitCode>>
    /\ UNCHANGED pubVars

NextAdj == Adjust

SpecAdj == InitAdj /\ [][NextAdj]_vars

(***************************************************************************)
(* Claims about getAdjustedWeights (checked under SpecAdj)                 *)
(***************************************************************************)
\* the records of category c that count: inside the learning window, with
\* engagement
Samples(c) ==
    {k \in 1..Len(history[ACCOUNT]) :
        /\ history[ACCOUNT][k].category = c
        /\ history[ACCOUNT][k].date > now - LEARNING_WINDOW_DAYS * TicksPerDay
        /\ history[ACCOUNT][k].engagementScore # NoScore}

ScoreSum(c) ==
    SumOver([k \in Samples(c) |-> history[ACCOUNT][k].engagementScore], Samples(c))

CategoriesWithData == {c \in {"x", "y", "z"} : Samples(c) # {}}

\* x has 2 records scoring 0 and 0, y and z have data, and the overall
\* average (mean of the three category averages) is 10
ZeroScenario ==
    /\ Cardinality(Samples("x")) = 2 /\ ScoreSum("x") = 0
    /\ Samples("y") # {} /\ Samples("z") # {}
    /\ ScoreSum("y") * Cardinality(Samples("z")) + ScoreSum("z") * Cardinality(Samples("y"))
          = 30 * Cardinality(Samples("y")) * Cardinality(Samples("z"))

\* C12: whatever the history holds, every weight getAdjustedWeights returns
\* is the base weight times a multiplier m with 0.5 <= m <= 1.5, rounded
\* (so it lies between round(0.5 w) and round(1.5 w)); in the scenario x's
\* multiplier is 0.5: its weight is round(0.5 w), not 0.
C12_WeightClamp ==
    adjCalls > 0 =>
        /\ Len(adjusted) = Len(CATEGORIES)
        /\ \A i \in 1..Len(CATEGORIES) :
              /\ adjusted[i].id = CATEGORIES[i].id
              /\ RoundMul(CATEGORIES[i].weight, <<1, 2>>) <= adjusted[i].weight
              /\ adjusted[i].weight <= RoundMul(CATEGORIES[i].weight, <<3, 2>>)
        /\ ZeroScenario =>
              /\ adjusted[1].weight = RoundMul(CATEGORIES[1].weight, <<1, 2>>)
              /\ adjusted[1].weight > 0

C12_Witness ==
    adjCalls > 0 /\ ZeroScenario /\ adjusted[1] = [id |-> "x", weight |-> 5]

\* C13: getAdjustedWeights changes a category's weight only if at least 3
\* categories have engagement data in the 30-day window and the category
\* itself has at least 2 samples there; otherwise the weight it returns for
\* the category is the base weight.
C13_ThinSampleGuard ==
    adjCalls > 0 =>
        \A i \in 1..Len(CATEGORIES) :
            (Cardinality(CategoriesWithData) < 3 \/ Cardinality(Samples(CATEGORIES[i].id)) < 2)
            => adjusted[i] = CATEGORIES[i]

\* three categories have data, x is adjusted, y with its single sample is not
C13_Witness ==
    /\ adjCalls > 0
    /\ Cardinality(CategoriesWithData) = 3
    /\ Cardinality(Samples("x")) = 2 /\ adjusted[1].weight # CATEGORIES[1].weight
    /\ Cardinality(Samples("y")) = 1 /\ ScoreSum("y") = 0 /\ adjusted[2] = CATEGORIES[2]

maxAttempts == 3
\* withRetry(fn, 3, 'Claude API呼出')
maxRetries == 3
\* text.length > 500 (posts), text.length > 150 (replies)
POST_LIMIT == 500
REPLY_LIMIT == 150
\* trimmed.slice(0, 497) + '...'
POST_SLICE == 497
\* paragraphs.length > 5
PARAGRAPH_LIMIT == 5

\* the blocklists of config.mjs, one token each
CORPORATE_BLOCKLIST == {"C"}
PR_BLOCKLIST == {"P"}
JARGON_BLOCKLIST == {"J"}

\* what String.prototype.trim removes
WhiteSpace == {" ", "N"}

Min(a, b) == IF a < b THEN a ELSE b

\* text.trim()
Trim(t) ==
    LET inked == {i \in DOMAIN t : t[i] \notin WhiteSpace}
    IN IF inked = {} THEN <<>>
       ELSE LET first == CHOOSE i \in inked : \A j \in inked : i <= j
                last  == CHOOSE i \in inked : \A j \in inked : j <= i
            IN SubSeq(t, first, last)

\* trimmed.slice(0, n)
Slice(t, n) == SubSeq(t, 1, Min(Len(t), n))

\* text.includes(word) for some word of the list
IncludesAny(t, words) == \E i \in DOMAIN t : t[i] \in words

\* (text.match(/#/g) || []).length
HashtagCount(t) == Cardinality({i \in DOMAIN t : t[i] = "#"})

\* text.split(/\n\n+/).filter(p => p.trim()).length
Paragraphs(t) ==
    Cardinality({i \in DOMAIN t :
        /\ t[i] # "N"
        /\ i = 1 \/ t[i - 1] = "N"
        /\ \E j \in i..Len(t) : t[j] \notin WhiteSpace /\ \A k \in i..j : t[k] # "N"})

\* the three blocklist loops shared by every validator
BlocklistErrors(t) ==
    (IF IncludesAny(t, CORPORATE_BLOCKLIST) THEN {"corporate"} ELSE {})
    \cup (IF IncludesAny(t, PR_BLOCKLIST) THEN {"pr"} ELSE {})
    \cup (IF IncludesAny(t, JARGON_BLOCKLIST) THEN {"jargon"} ELSE {})

\* validatePost with the tag rule of an earlier revision: a tag is required
validatePost_tagRequired(t) ==
    (IF Len(t) > POST_LIMIT THEN {"length"} ELSE {})
    \cup (IF HashtagCount(t) = 0 THEN {"hashtag"} ELSE {})
    \cup BlocklistErrors(t)
    \cup (IF Paragraphs(t) > PARAGRAPH_LIMIT THEN {"paragraphs"} ELSE {})

\* validatePost(text): the errors found
validatePost(t) ==
    (IF Len(t) > POST_LIMIT THEN {"length"} ELSE {})
    \cup (IF HashtagCount(t) > 0 THEN {"hashtag"} ELSE {})
    \cup BlocklistErrors(t)
    \cup (IF Paragraphs(t) > PARAGRAPH_LIMIT THEN {"paragraphs"} ELSE {})

\* validateReply(text): the errors found
validateReply(t) ==
    (IF Len(t) > REPLY_LIMIT THEN {"length"} ELSE {})
    \cup BlocklistErrors(t)
    \cup (IF IncludesAny(t, {"U"}) THEN {"url"} ELSE {})

\* the inline validation of generateArticlePost
validateArticle(t) ==
    (IF Len(t) > POST_LIMIT THEN {"length"} ELSE {})
    \cup (IF HashtagCount(t) > 0 THEN {"hashtag"} ELSE {})
    \cup BlocklistErrors(t)

\* the validation the called function applies to the trimmed text
Errors(kind, t) ==
    CASE kind = "post" -> validatePost(t)
      [] kind = "article" -> validateArticle(t)
      [] OTHER -> validateReply(t)

\* the cut without the slice
LastResort_noSlice(kind, t) ==
    IF kind = "reply" THEN t ELSE t \o <<".", ".", ".">>

\* if (attempt === maxAttempts) return trimmed.slice(0, 497) + '...'
\* (generateReply: return trimmed.slice(0, 150))
LastResort(kind, t) ==
    IF kind = "reply" THEN Slice(t, REPLY_LIMIT)
    ELSE Slice(t, POST_SLICE) \o <<".", ".", ".">>

\* withRetry gives up one try late
RetryExhausted_late(r) == r = maxRetries + 1

\* if (attempt === maxRetries) throw e
RetryExhausted(r) == r = maxRetries

\* n ordinary characters
Fill(n) == [i \in 1..n |-> "a"]

\* data.content?.[0]?.text || '': the answers the generation service gives
ServiceTexts ==
    { <<>>,
      Fill(3),
      <<" ">> \o Fill(3) \o <<"N">>,
      <<"a", "#", "a">>,
      <<"a", "C">>,
      <<"P", "J">>,
      <<"a", "S">>,
      <<"a", "U">>,
      <<"a", "N", "a", "N", "a", "N", " ", "N", "a", "N", "a", "N", "a">>,
      Fill(REPLY_LIMIT),
      Fill(REPLY_LIMIT + 1),
      Fill(POST_LIMIT),
      <<" ">> \o Fill(POST_LIMIT) \o <<" ">>,
      Fill(POST_LIMIT - 1) \o <<"#">>,
      Fill(POST_LIMIT + 1) }

GenKinds == {"post", "article", "reply"}

\* postText = await generatePost(userPrompt, { systemPrompt, isStealth: IS_STEALTH })
\* the call enters the loop with attempt = 1; callClaude throws at once
\* when ANTHROPIC_API_KEY is not set
GenCall ==
    /\ genPc = "idle"
    /\ \E apiKey \in BOOLEAN :
          IF apiKey
          THEN /\ genPc' = "fetch"
               /\ attempt' = 1
               /\ retry' = 1
          ELSE /\ genPc' = "thrown"
               /\ attempt' = 1
               /\ retry' = 0
    /\ UNCHANGED <<genKind, isStealth, requests, failed, rejected, text, genResult>>
    /\ UNCHANGED <<runVars, pubVars, adjVars, buzzVars, extVars>>

\* one await fn() of withRetry that answers: res.ok, text = data.content[0].text
FetchOk ==
    /\ genPc = "fetch"
    /\ requests' = requests + 1
    /\ text' \in ServiceTexts
    /\ genPc' = "validate"
    /\ UNCHANGED <<genKind, isStealth, attempt, retry, failed, rejected, genResult>>
    /\ UNCHANGED <<runVars, pubVars, adjVars, buzzVars, extVars>>

\* one await fn() of withRetry that throws (network error or !res.ok):
\* thrown on after the last try, tried again after the delay otherwise
FetchFail ==
    /\ genPc = "fetch"
    /\ requests' = requests + 1
    /\ failed' = failed + 1
    /\ IF RetryExhausted(retry)
       THEN genPc' = "thrown" /\ retry' = retry
       ELSE genPc' = "fetch" /\ retry' = retry + 1
    /\ UNCHANGED <<genKind, isStealth, attempt, rejected, text, genResult>>
    /\ UNCHANGED <<runVars, pubVars, adjVars, buzzVars, extVars>>

\* trimmed = text.trim(); errors = validate(trimmed); return trimmed when
\* there is no error, the cut text on the last attempt, loop otherwise
Validate ==
    /\ genPc = "validate"
    /\ LET trimmed == Trim(text)
           errors  == Errors(genKind, trimmed)
       IN IF errors = {}
          THEN /\ genResult' = trimmed
               /\ genPc' = "done"
               /\ UNCHANGED <<attempt, retry, rejected>>
          ELSE IF attempt = maxAttempts
          THEN /\ genResult' = LastResort(genKind, trimmed)
               /\ genPc' = "done"
               /\ rejected' = rejected + 1
               /\ UNCHANGED <<attempt, retry>>
          ELSE /\ attempt' = attempt + 1
               /\ retry' = 1
               /\ rejected' = rejected + 1
               /\ genPc' = "fetch"
               /\ UNCHANGED genResult
    /\ UNCHANGED <<genKind, isStealth, requests, failed, text>>
    /\ UNCHANGED <<runVars, pubVars, adjVars, buzzVars, extVars>>

\* a process that calls the generator once: the account decides isStealth
InitGen ==
    /\ InitConfig
    /\ InitRun
    /\ InitPub
    /\ InitAdjIdle
    /\ InitBuzzIdle
    /\ InitExtIdle
    /\ genKind \in GenKinds
    /\ isStealth = IS_STEALTH(ACCOUNT)
    /\ genPc = "idle"
    /\ attempt = 0
    /\ retry = 0
    /\ requests = 0
    /\ failed = 0
    /\ rejected = 0
    /\ text = NoText
    /\ genResult = NoText

NextGen == GenCall \/ FetchOk \/ FetchFail \/ Validate

SpecGen == InitGen /\ [][NextGen]_vars

(***************************************************************************)
(* Claims about the generator (checked under SpecGen)                      *)
(***************************************************************************)

\* the additional blocklist of a stealth account, one token
STEALTH_BLOCKLIST == {"S"}

\* t passes every validation rule: the length limit, no tag marker, no token
\* of a blocklist, no URL in a reply, at most five paragraphs and, for a
\* stealth account, no token of the additional blocklist
Compliant(kind, stealth, t) ==
    /\ Len(t) <= (IF kind = "reply" THEN REPLY_LIMIT ELSE POST_LIMIT)
    /\ \A i \in DOMAIN t : t[i] \notin {"#", "C", "P", "J"}
    /\ kind = "reply" => \A i \in DOMAIN t : t[i] # "U"
    /\ Paragraphs(t) <= PARAGRAPH_LIMIT
    /\ stealth => \A i \in DOMAIN t : t[i] \notin STEALTH_BLOCKLIST

\* C15: when the text the service returns on attempt k (trimmed) passes every
\* validation rule, the call returns that text, having rejected the k-1
\* texts before it, and no request is made once the call has returned.
C15_ValidatorConvergence ==
    [][/\ (genPc = "validate" /\ Compliant(genKind, isStealth, Trim(text)))
            => /\ genPc' = "done"
               /\ genResult' = Trim(text)
               /\ genResult' # NoText
               /\ rejected' = attempt - 1
               /\ requests' = requests
       /\ genPc = "done" => (requests' = requests /\ genResult' = genResult)]_vars

\* the second attempt's text, sent with blanks around it, was returned trimmed
C15_Witness ==
    /\ genPc = "done"
    /\ attempt = 2
    /\ rejected = 1
    /\ requests = 2
    /\ text # Trim(text)
    /\ Compliant(genKind, isStealth, Trim(text))
    /\ genResult = Trim(text)

\* the abandon signal of generate
Null == <<"null">>

\* C16: for a stealth account, generatePost returns null when all three
\* attempts fail validation, and never returns a text that failed
\* validation (the stealth blocklist included).
C16_StealthAbandon ==
    (genPc = "done" /\ isStealth /\ genKind = "post") =>
        /\ rejected = maxAttempts => genResult = Null
        /\ genResult # Null => Compliant(genKind, isStealth, genResult)

\* the length limit of what the called function returns
LengthLimit(kind) == IF kind = "reply" THEN REPLY_LIMIT ELSE POST_LIMIT

\* r is t cut to at most n characters, with at most a three-character mark added
CutOf(r, t, n) ==
    LET kept == Min(Len(t), n)
    IN /\ Len(r) >= kept
       /\ Len(r) <= kept + 3
       /\ SubSeq(r, 1, kept) = SubSeq(t, 1, kept)

\* C17: every text a call returns has at most 500 characters (posts) or 150
\* characters (replies); for a non-stealth account whose three attempts all
\* failed validation the call returns a text, not null: the last attempt's
\* text cut to the length limit.
C17_BestEffortDelivery ==
    genPc = "done" =>
        /\ Len(genResult) <= LengthLimit(genKind)
        /\ (~isStealth /\ rejected = maxAttempts) =>
              /\ genResult \notin {Null, NoText}
              /\ \E n \in {LengthLimit(genKind) - 3, LengthLimit(genKind)} :
                    CutOf(genResult, Trim(text), n)

\* three rejected texts, the last one too long, returned cut to 500 characters
C17_Witness ==
    /\ genPc = "done"
    /\ ~isStealth
    /\ genKind = "post"
    /\ rejected = maxAttempts
    /\ Len(Trim(text)) > POST_LIMIT
    /\ Len(genResult) = POST_LIMIT

\* C18 as stated: one call makes at most three requests to the generation
\* service, failed requests included.
C18_AtMostThreeRequests == requests <= maxAttempts

\* C18 as amended: one call makes at most three validation attempts and at
\* most three answered requests, one per validation attempt; a failed request
\* is tried again within its attempt, up to three requests per attempt and
\* nine per call, and a call no request of which fails makes at most three.
C18_RequestsBounded ==
    /\ attempt <= maxAttempts
    /\ requests - failed <= attempt
    /\ requests <= attempt * maxRetries
    /\ requests <= maxAttempts * maxRetries
    /\ failed = 0 => requests <= maxAttempts

\* a call that returned after nine requests, six of them failed
C18_Witness ==
    /\ genPc = "done"
    /\ requests = maxAttempts * maxRetries
    /\ failed = maxAttempts * (maxRetries - 1)

(***************************************************************************)
(* Buzz reply script (unnamed/part_007) and its reply ledger               *)
(* (unnamed/part_006, lines 150-207)                                       *)
(***************************************************************************)

\* runs of the script in one behaviour
MaxRuns == 2

MAX_DAILY_REPLIES == 10
\* 60 * 1000
MIN_REPLY_INTERVAL_MS == 60000
POST_LOOKBACK_HOURS == 48

\* await new Promise(r => setTimeout(r, 500)) after getInsights
INSIGHTS_PAUSE_MS == 500
BUSINESS_ACCOUNT == "business"

\* Date.now() - POST_LOOKBACK_HOURS * 60 * 60 * 1000
LookbackCutoff(t) == t - (POST_LOOKBACK_HOURS * TicksPerDay) \div 24

\* today = new Date(); today.setHours(0, 0, 0, 0)
DayStart(t) == (t \div TicksPerDay) * TicksPerDay

\* history.replies.some(r => r.targetThreadId === threadId): a reply without
\* the field has targetThreadId undefined, which equals no thread id
hasRepliedToPost(ledger, id) ==
    \E i \in DOMAIN ledger :
        /\ "targetThreadId" \in DOMAIN ledger[i]
        /\ ledger[i]["targetThreadId"] = id

\* history.replies.filter(r => new Date(r.date) >= today).length
getTodayReplyCount(ledger, t) ==
    Cardinality({i \in DOMAIN ledger : ledger[i].date >= DayStart(t)})

\* history.replies.push(entry); replies older than the retention are dropped
saveReplyHistory(ledger, entry, t) ==
    LET kept(r) == r.date > Cutoff(t, HISTORY_RETENTION_DAYS)
    IN SelectSeq(Append(ledger, entry), kept)

\* the entry main hands to saveReplyHistory
ReplyEntry(post, replyId, t) ==
    [date |-> t, originalThreadId |-> post.threadId,
     originalAccount |-> post.account, replyId |-> replyId]

\* the slots of a run that forgets the replies already made today
RemainingSlots_full(count) == MAX_DAILY_REPLIES

\* const remainingSlots = MAX_DAILY_REPLIES - todayCount
RemainingSlots(count) == MAX_DAILY_REPLIES - count

\* getRecentStealthPosts(): the published posts of the last 48 hours of each
\* stealth account, in the order of the accounts
StealthOrder == <<"a1">>

RECURSIVE RecentPostsFrom(_, _, _)
RecentPostsFrom(k, hist, t) ==
    IF k > Len(StealthOrder) THEN <<>>
    ELSE LET recent(p) == p.date >= LookbackCutoff(t) /\ p.threadId # DRY_RUN_ID
         IN SelectSeq(loadHistory(hist, StealthOrder[k]), recent)
            \o RecentPostsFrom(k + 1, hist, t)

getRecentStealthPosts(hist, t) == RecentPostsFrom(1, hist, t)

\* getBuzzLevel with each tier asking for both thresholds
getBuzzLevel_and(insights) ==
    LET views == OrZero(insights.views)
        likes == OrZero(insights.likes)
    IN IF views >= 5000 /\ likes >= 20 THEN [level |-> "SUPER_BUZZ", probability |-> 10]
       ELSE IF views >= 2000 /\ likes >= 10 THEN [level |-> "BUZZ", probability |-> 8]
       ELSE IF views >= 1000 /\ likes >= 5 THEN [level |-> "RISING", probability |-> 5]
       ELSE [level |-> "NORMAL", probability |-> 2]

\* getBuzzLevel(insights): the level and its probability in tenths
getBuzzLevel(insights) ==
    LET views == OrZero(insights.views)
        likes == OrZero(insights.likes)
    IN IF views >= 5000 \/ likes >= 20 THEN [level |-> "SUPER_BUZZ", probability |-> 10]
       ELSE IF views >= 2000 \/ likes >= 10 THEN [level |-> "BUZZ", probability |-> 8]
       ELSE IF views >= 1000 \/ likes >= 5 THEN [level |-> "RISING", probability |-> 5]
       ELSE [level |-> "NORMAL", probability |-> 2]

\* Math.random() < buzzLevel.probability
shouldReply(r, tenths) == r.num * 10 < tenths * r.den

\* what getInsights answers; the last is the dummy of a dry run
BuzzInsights ==
    {[views |-> 0, likes |-> 0], [views |-> 1000, likes |-> 4], [views |-> 5000, likes |-> 0]}
DryInsights == [views |-> 3000, likes |-> 12]

\* main up to the loop: the daily cap check, then the candidates
BuzzStart ==
    /\ buzzPc = "idle"
    /\ buzzRuns < MaxRuns
    /\ buzzRuns' = buzzRuns + 1
    /\ LET count == getTodayReplyCount(replyLedger, now)
           found == getRecentStealthPosts(history, now)
       IN /\ todayCount' = count
          /\ IF count >= MAX_DAILY_REPLIES
             THEN /\ remainingSlots' = 0
                  /\ candidates' = <<>>
                  /\ buzzPc' = "end"
             ELSE /\ remainingSlots' = RemainingSlots(count)
                  /\ candidates' = found
                  /\ buzzPc' = IF Len(found) = 0 THEN "end" ELSE "loop"
    /\ buzzIdx' = 1
    /\ repliedCount' = 0
    /\ publishedCount' = 0
    /\ buzzTally' = NoTally
    /\ buzzExit' = 0 - 1
    /\ UNCHANGED replyLedger
    /\ UNCHANGED <<runVars, pubVars, adjVars, genVars, extVars>>

\* delaySec = Math.floor(Math.random() * 91) + 30: the least and the greatest
DelaySecs == {30, 120}

\* randomDelay(): nothing in a dry run, else delaySec seconds, in milliseconds
randomDelay(dry, delaySec) == IF dry THEN 0 ELSE delaySec * 1000

\* a loop that goes on to the next candidate without waiting
ReplyWait_none(replied, slots) == 0

\* if (repliedCount < remainingSlots) await setTimeout(MIN_REPLY_INTERVAL_MS)
ReplyWait(replied, slots) == IF replied < slots THEN MIN_REPLY_INTERVAL_MS ELSE 0

\* one pass of the for loop over candidates; buzzTally.slept is the time the
\* run has slept since its last published reply (or since its start) and
\* buzzTally.gap is that time at the moment of the last publishReply call
\* that succeeded
BuzzItem ==
    /\ buzzPc = "loop"
    /\ IF buzzIdx > Len(candidates) \/ repliedCount >= remainingSlots
       THEN \* the loop is over, or break
            /\ buzzPc' = "end"
            /\ UNCHANGED <<replyLedger, buzzIdx, repliedCount, publishedCount,
                           buzzTally, buzzExit>>
       ELSE LET post == candidates[buzzIdx]
                continue(tally) ==
                    /\ buzzIdx' = buzzIdx + 1
                    /\ buzzTally' = tally
                    /\ UNCHANGED <<replyLedger, buzzPc, repliedCount, publishedCount,
                                   buzzExit>>
                skipped == [buzzTally EXCEPT !.skipped = @ + 1]
            IN IF hasRepliedToPost(replyLedger, post.threadId)
               THEN continue(skipped)
               ELSE \E fetched \in BOOLEAN, seen \in BuzzInsights, r \in Randoms,
                       delaySec \in DelaySecs, generated \in BOOLEAN, sent \in BOOLEAN :
                      LET insights == IF DRY_RUN THEN DryInsights ELSE seen
                          paused   == IF DRY_RUN THEN 0 ELSE INSIGHTS_PAUSE_MS
                          delayed  == paused + randomDelay(DRY_RUN, delaySec)
                          tried    == [buzzTally EXCEPT !.attempted = @ + 1,
                                                        !.slept = @ + delayed]
                          lost     == [tried EXCEPT !.failed = @ + 1]
                      IN IF ~DRY_RUN /\ ~fetched
                         THEN continue([buzzTally EXCEPT !.fetchFailed = @ + 1])
                         ELSE IF ~shouldReply(r, getBuzzLevel(insights).probability)
                         THEN continue([skipped EXCEPT !.slept = @ + paused])
                         ELSE IF ~generated
                         THEN \* generateBusinessReply throws: main().catch
                              /\ buzzPc' = "idle"
                              /\ buzzExit' = 1
                              /\ buzzTally' = lost
                              /\ UNCHANGED <<replyLedger, buzzIdx, repliedCount,
                                             publishedCount>>
                         ELSE IF ~DRY_RUN /\ ~sent
                         THEN continue(lost)
                         ELSE /\ replyLedger' =
                                    saveReplyHistory(replyLedger,
                                        ReplyEntry(post,
                                            IF DRY_RUN THEN DRY_RUN_ID
                                            ELSE 1 + Len(replyLedger), now),
                                        now)
                              /\ repliedCount' = repliedCount + 1
                              /\ publishedCount' =
                                    publishedCount + (IF DRY_RUN THEN 0 ELSE 1)
                              /\ buzzIdx' = buzzIdx + 1
                              /\ buzzTally' =
                                    LET wait == ReplyWait(repliedCount + 1, remainingSlots)
                                    IN IF DRY_RUN
                                       THEN [tried EXCEPT !.slept = @ + wait]
                                       ELSE [tried EXCEPT !.gap = tried.slept,
                                                          !.slept = wait]
                              /\ UNCHANGED <<buzzPc, buzzExit>>
    /\ UNCHANGED <<todayCount, remainingSlots, candidates, buzzRuns>>
    /\ UNCHANGED <<runVars, pubVars, adjVars, genVars, extVars>>

\* an exit status that hides the failure
ExitStatus_zero(found, replied) == 0

\* if (candidates.length > 0 && repliedCount === 0) process.exit(1)
ExitStatus(found, replied) == IF Len(found) > 0 /\ replied = 0 THEN 1 ELSE 0

\* main returns: exit status 1 when there were candidates and no reply
BuzzEnd ==
    /\ buzzPc = "end"
    /\ buzzPc' = "idle"
    /\ buzzExit' = ExitStatus(candidates, repliedCount)
    /\ UNCHANGED <<replyLedger, todayCount, remainingSlots, candidates, buzzIdx,
                   repliedCount, publishedCount, buzzRuns, buzzTally>>
    /\ UNCHANGED <<runVars, pubVars, adjVars, genVars, extVars>>

\* replies made earlier today to posts that are no longer candidates
EarlierReplies(n) ==
    [i \in 1..n |-> [date |-> 0, originalThreadId |-> 10 + i,
                     originalAccount |-> "a1", replyId |-> 100 + i]]

\* a reply dated exactly on the retention cutoff of time 0
ExpiredReply ==
    [date |-> 0 - HISTORY_RETENTION_DAYS * TicksPerDay, originalThreadId |-> 10,
     originalAccount |-> "a1", replyId |-> 100]

BuzzLedgers ==
    {EarlierReplies(n) : n \in {0, MAX_DAILY_REPLIES - 2, MAX_DAILY_REPLIES - 1, MAX_DAILY_REPLIES}}
    \cup {<<ExpiredReply>>}

\* the history of the stealth account: two published posts and a dry run
BuzzPosts ==
    <<Entry("aruaru", NoKey, 1, "a1", 0), Entry("aruaru", NoKey, DRY_RUN_ID, "a1", 0),
      Entry("aruaru", NoKey, 2, "a1", 0)>>

InitBuzz ==
    /\ CATEGORIES \in CategoryConfigs
    /\ ACCOUNT = BUSINESS_ACCOUNT
    /\ PERSONA = NoPersona
    /\ now = 0
    /\ history = [a \in Accounts |-> IF a = "a1" THEN BuzzPosts ELSE <<>>]
    /\ DRY_RUN \in BOOLEAN
    /\ FORCE_CATEGORY = "none"
    /\ trendResult = <<>>
    /\ category = Undefined
    /\ selPath = "none"
    /\ selRandom = [num |-> 0, den |-> 1]
    /\ cur = "none"
    /\ depth = 0
    /\ topicKey = NoKey
    /\ postText = "none"
    /\ threadId = DRY_RUN_ID
    /\ pubOutcome = "none"
    /\ appended = 0
    /\ exitCode = 0 - 1
    /\ InitPub
    /\ InitAdjIdle
    /\ InitGenIdle
    /\ InitExtIdle
    /\ replyLedger \in BuzzLedgers
    /\ buzzPc = "idle"
    /\ todayCount = 0
    /\ remainingSlots = 0
    /\ candidates = <<>>
    /\ buzzIdx = 0
    /\ repliedCount = 0
    /\ publishedCount = 0
    /\ buzzRuns = 0
    /\ buzzTally = NoTally
    /\ buzzExit = 0 - 1

NextBuzz == BuzzStart \/ BuzzItem \/ BuzzEnd \/ Tick

SpecBuzz == InitBuzz /\ [][NextBuzz]_vars

(***************************************************************************)
(* Claims about the buzz reply script (checked under SpecBuzz)             *)
(***************************************************************************)

\* C19: the reply ledger never holds two entries for the same original post
\* id: a post that has an entry is skipped by every later run.
C19_ReplyDedup ==
    \A i, j \in DOMAIN replyLedger :
        i # j => replyLedger[i].originalThreadId # replyLedger[j].originalThreadId

\* the day a reply is dated on
DayOf(r) == r.date \div TicksPerDay

\* the replies of the ledger dated on the day of reply i
SameDay(i) == {j \in DOMAIN replyLedger : DayOf(replyLedger[j]) = DayOf(replyLedger[i])}

\* C20: the ledger never holds more than 10 replies dated on one day, and a
\* run that found the cap reached when it started publishes no reply and
\* appends nothing to the ledger.
C20_DailyCap ==
    /\ [](\A i \in DOMAIN replyLedger : Cardinality(SameDay(i)) <= MAX_DAILY_REPLIES)
    /\ [][(replyLedger' # replyLedger \/ publishedCount' > publishedCount)
            => todayCount < MAX_DAILY_REPLIES]_vars
    /\ [](todayCount >= MAX_DAILY_REPLIES => repliedCount = 0 /\ publishedCount = 0)

\* a run that started with nine replies today made the tenth and left the
\* loop with a candidate still waiting
C20_Witness ==
    /\ buzzPc = "end"
    /\ todayCount = MAX_DAILY_REPLIES - 1
    /\ repliedCount = 1
    /\ buzzIdx <= Len(candidates)
    /\ getTodayReplyCount(replyLedger, now) = MAX_DAILY_REPLIES

(***************************************************************************)
(* Buzz level of one post (unnamed/part_007, lines 31-43)                  *)
(***************************************************************************)

\* the metrics of a post, on and next to every threshold, or not sent
TierInsights ==
    [views : {Missing, 0, 999, 1000, 1999, 2000, 4999, 5000},
     likes : {Missing, 0, 4, 5, 9, 10, 19, 20}]

InitTier ==
    /\ InitConfig
    /\ InitRun
    /\ InitPub
    /\ InitAdjIdle
    /\ InitGenIdle
    /\ InitBuzzIdle
    /\ InitEngIdle
    /\ InitRaceIdle
    /\ InitCallIdle
    /\ seenInsights \in TierInsights
    /\ buzzLevel = NoLevel
    /\ replyDecision = [random |-> [num |-> 0, den |-> 1], reply |-> FALSE]

\* const buzzLevel = getBuzzLevel(insights); shouldReply(buzzLevel)
Classify ==
    /\ buzzLevel = NoLevel
    /\ buzzLevel' = getBuzzLevel(seenInsights)
    /\ \E r \in Randoms :
          replyDecision' = [random |-> r,
                            reply |-> shouldReply(r, getBuzzLevel(seenInsights).probability)]
    /\ UNCHANGED seenInsights
    /\ UNCHANGED <<runVars, pubVars, adjVars, genVars, buzzVars, engVars, raceVars, callVars>>

NextTier == Classify

SpecTier == InitTier /\ [][NextTier]_vars

(***************************************************************************)
(* Claims about the buzz level (checked under SpecTier)                    *)
(***************************************************************************)

\* the metrics as counted: a metric that is missing counts as 0
Views == IF seenInsights.views = Missing THEN 0 ELSE seenInsights.views
Likes == IF seenInsights.likes = Missing THEN 0 ELSE seenInsights.likes

\* C21: the tiers are tried highest first, each with an OR of its two
\* thresholds: 5000 views or 20 likes give the top tier (probability 1.0),
\* else 2000 or 10 the second (0.8), else 1000 or 5 the third (0.5), else
\* the baseline (0.2); 1000 views with 4 likes give the third tier; the
\* reply is made when the number drawn is below the probability.
C21_BuzzTier ==
    buzzLevel # NoLevel =>
        /\ buzzLevel.level = "SUPER_BUZZ" <=> (Views >= 5000 \/ Likes >= 20)
        /\ buzzLevel.level = "BUZZ" <=>
              (~(Views >= 5000 \/ Likes >= 20) /\ (Views >= 2000 \/ Likes >= 10))
        /\ buzzLevel.level = "RISING" <=>
              (~(Views >= 2000 \/ Likes >= 10) /\ ~(Views >= 5000 \/ Likes >= 20)
               /\ (Views >= 1000 \/ Likes >= 5))
        /\ buzzLevel.level = "NORMAL" <=>
              (Views < 1000 /\ Likes < 5)
        /\ buzzLevel.probability =
              (CASE buzzLevel.level = "SUPER_BUZZ" -> 10
                 [] buzzLevel.level = "BUZZ" -> 8
                 [] buzzLevel.level = "RISING" -> 5
                 [] OTHER -> 2)
        /\ (seenInsights.views = 1000 /\ seenInsights.likes = 4)
              => buzzLevel = [level |-> "RISING", probability |-> 5]
        /\ replyDecision.reply <=>
              replyDecision.random.num * 10 < buzzLevel.probability * replyDecision.random.den

\* 1000 views and 4 likes were classified, and the draw of 0 made the reply
C21_Witness ==
    /\ seenInsights = [views |-> 1000, likes |-> 4]
    /\ buzzLevel.level = "RISING"
    /\ buzzLevel.probability = 5
    /\ replyDecision.reply

(***************************************************************************)
(* Claims about the exit status of the buzz reply script (SpecBuzz)        *)
(***************************************************************************)

\* the run started last has ended
BuzzRunEnded == buzzPc = "idle" /\ buzzExit # 0 - 1

\* C22: a run that had at least one candidate, tried at least one reply and
\* saw every reply it tried fail ends with a nonzero exit status.
C22_TotalFailureVisible ==
    (/\ BuzzRunEnded
     /\ Len(candidates) >= 1
     /\ buzzTally.attempted >= 1
     /\ buzzTally.failed = buzzTally.attempted)
    => buzzExit # 0

\* both replies of a run were generated and both publishReply calls failed
C22_Witness ==
    /\ BuzzRunEnded
    /\ ~DRY_RUN
    /\ buzzIdx > Len(candidates)
    /\ buzzTally.attempted = 2
    /\ buzzTally.failed = 2
    /\ buzzExit = 1

\* C23: a run with nothing to do ends with exit status 0: no candidates, the
\* daily cap reached at the start, or every candidate skipped (already in
\* the ledger or not selected by the draw) so that no reply was tried.
C23_NothingToDoExitsZero ==
    (/\ BuzzRunEnded
     /\ \/ Len(candidates) = 0
        \/ todayCount >= MAX_DAILY_REPLIES
        \/ buzzTally.skipped = Len(candidates))
    => buzzExit = 0

(***************************************************************************)
(* Engagement collector (poster.mjs, lines 56-80; getInsights of           *)
(* lib/ai-generator.mjs, lines 474-490)                                    *)
(***************************************************************************)

\* the clock of the collector's run
EngNow == 3 * TicksPerDay

\* what the insights endpoint answers: every metric, or only some
EngInsights ==
    {[views |-> 1000, likes |-> 4, replies |-> 1, reposts |-> 0, quotes |-> 2],
     [views |-> Missing, likes |-> 3, replies |-> Missing, reposts |-> 1, quotes |-> Missing]}

\* getInsights' answer when apiCall throws
ZeroInsights == [views |-> 0, likes |-> 0, replies |-> 0, reposts |-> 0, quotes |-> 0]

\* a published post of the account dated d
Posted(id, d) == Entry("aruaru", NoKey, id, "business", d)

\* a history with one record of every kind: two posts to check (1 and 6), a
\* dry run, a reply, a post with its snapshot, a post exactly 24 hours old
\* and a post of this instant
MixedHistory ==
    <<Posted(1, 0),
      Posted(DRY_RUN_ID, 0),
      [Posted(2, 0) EXCEPT !.repliedTo = 9],
      [Posted(3, 0) EXCEPT !.engagement = ZeroInsights, !.engagementScore = 0,
                           !.engagementUpdatedAt = TicksPerDay],
      Posted(4, EngNow - TicksPerDay),
      Posted(5, EngNow),
      Posted(6, 0)>>

\* a history with one post to check more than a batch holds
FullHistory == [i \in 1..(ENGAGEMENT_BATCH + 1) |-> Posted(i, 0)]

InitEng ==
    /\ CATEGORIES \in CategoryConfigs
    /\ ACCOUNT = "business"
    /\ PERSONA = NoPersona
    /\ now = EngNow
    /\ history \in {[a \in Accounts |-> IF a = ACCOUNT THEN h ELSE <<>>] :
                        h \in {<<>>, MixedHistory, FullHistory}}
    /\ DRY_RUN = FALSE
    /\ FORCE_CATEGORY = "none"
    /\ trendResult = <<>>
    /\ category = Undefined
    /\ selPath = "none"
    /\ selRandom = [num |-> 0, den |-> 1]
    /\ cur = "none"
    /\ depth = 0
    /\ topicKey = NoKey
    /\ postText = "none"
    /\ threadId = DRY_RUN_ID
    /\ pubOutcome = "none"
    /\ appended = 0
    /\ exitCode = 0 - 1
    /\ InitPub
    /\ apiModule = "polling"
    /\ InitAdjIdle
    /\ InitGenIdle
    /\ InitBuzzIdle
    /\ InitTierIdle
    /\ InitRaceIdle
    /\ InitCallIdle
    /\ engPc = "idle"
    /\ hasToken \in BOOLEAN
    /\ postsToCheck = <<>>
    /\ engIdx = 0
    /\ engFetched = <<>>
    /\ engFailed = {}
    /\ collected = 0

\* const postsToCheck = getPostsNeedingEngagement(ACCOUNT); return when empty
EngStart ==
    /\ engPc = "idle"
    /\ engFetched = <<>>
    /\ postsToCheck' = PostsToCheck(loadHistory(history, ACCOUNT), now)
    /\ engPc' = IF postsToCheck' = <<>> THEN "done" ELSE "loop"
    /\ engIdx' = 1
    /\ UNCHANGED <<hasToken, engFetched, engFailed, collected>>
    /\ UNCHANGED <<runVars, pubVars, adjVars, genVars, buzzVars, tierVars, raceVars, callVars>>

\* one pass of for (const post of postsToCheck.slice(0, 10)): getInsights
\* throws without a token, answers zeros when the request fails, and what
\* it answers is written by updatePostEngagement
EngFetch ==
    /\ engPc = "loop"
    /\ LET batch == FirstBatch(postsToCheck)
       IN IF engIdx > Len(batch)
          THEN /\ engPc' = "done"
               /\ UNCHANGED <<history, engIdx, engFetched, engFailed, collected>>
          ELSE LET id == batch[engIdx]
               IN /\ engFetched' = Append(engFetched, id)
                  /\ engIdx' = engIdx + 1
                  /\ engPc' = "loop"
                  /\ IF ~hasToken
                     THEN UNCHANGED <<history, engFailed, collected>>
                     ELSE /\ \E ok \in BOOLEAN, answer \in EngInsights :
                               /\ history' =
                                     [history EXCEPT ![ACCOUNT] =
                                         updatePostEngagement(@, id,
                                             IF ok THEN answer ELSE ZeroInsights,
                                             now)]
                               /\ engFailed' = IF ok THEN engFailed
                                               ELSE engFailed \cup {id}
                          /\ collected' = collected + 1
    /\ UNCHANGED <<hasToken, postsToCheck>>
    /\ UNCHANGED <<now, CATEGORIES, PERSONA, ACCOUNT, DRY_RUN, FORCE_CATEGORY,
                   trendResult, category, selPath, selRandom, cur, depth, topicKey,
                   postText, threadId, pubOutcome, appended, exitCode>>
    /\ UNCHANGED <<pubVars, adjVars, genVars, buzzVars, tierVars, raceVars, callVars>>

NextEng == EngStart \/ EngFetch

SpecEng == InitEng /\ [][NextEng]_vars

(***************************************************************************)
(* Claims about the engagement collector (checked under SpecEng)           *)
(***************************************************************************)

\* the account's history file
Posts == history[ACCOUNT]

\* a record the collector may fetch: a real post id, not a reply, no
\* snapshot yet, dated more than 24 hours ago
Eligible(p) ==
    /\ p.threadId # DRY_RUN_ID
    /\ p.repliedTo = NoReply
    /\ p.engagement = NoSnapshot
    /\ now - p.date > TicksPerDay

\* C24: every record the collector fetches metrics for, and every record it
\* updates, has a post id that is not the dry-run marker, is not a reply,
\* has no snapshot yet and is dated more than 24 hours ago.
C24_OnlyEligibleFetched ==
    [][/\ Len(engFetched') > Len(engFetched) =>
            \A k \in DOMAIN Posts :
                Posts[k].threadId = engFetched'[Len(engFetched')] => Eligible(Posts[k])
       /\ \A k \in DOMAIN Posts : Posts'[k] # Posts[k] => Eligible(Posts[k])]_vars

\* of the seven records of the mixed history the two posts to check were
\* fetched and updated, the five others left as they were
C24_Witness ==
    /\ engPc = "done"
    /\ Len(Posts) = 7
    /\ engFetched = <<1, 6>>
    /\ collected = 2
    /\ Posts[1].engagement # NoSnapshot
    /\ Posts[5] = Posted(4, EngNow - TicksPerDay)

\* the record of the history with thread id id
RecordOf(id) == Posts[CHOOSE k \in DOMAIN Posts : Posts[k].threadId = id]

\* C25: one run fetches metrics for at most 10 records, one at a time; the
\* records to check beyond the tenth are left as they were and can be
\* checked by a later run.
C25_BatchOfTen ==
    /\ [](Len(engFetched) <= 10)
    /\ [][Len(engFetched') <= Len(engFetched) + 1]_vars
    /\ [](engPc = "done" =>
            \A i \in 11..Len(postsToCheck) : Eligible(RecordOf(postsToCheck[i])))

\* eleven posts to check: ten fetched and updated, the eleventh left
C25_Witness ==
    /\ engPc = "done"
    /\ Len(postsToCheck) = 11
    /\ Len(engFetched) = 10
    /\ collected = 10
    /\ Eligible(RecordOf(postsToCheck[11]))

\* C26: a record whose metrics request failed is skipped: its engagement
\* stays unset, so that a later run checks it again, and the records after
\* it in the batch are still processed.
C26_FailedFetchSkipped ==
    /\ \A id \in engFailed :
          /\ RecordOf(id).engagement = NoSnapshot
          /\ RecordOf(id).engagementScore = NoScore
    /\ engPc = "done" => Len(engFetched) = Len(FirstBatch(postsToCheck))

\* a counter of a snapshot, a missing one counting as 0
Counter(e, name) == IF e[name] = Missing THEN 0 ELSE e[name]

\* C27: every Post Record with an engagement snapshot carries the score
\* replies*4 + reposts*2 + quotes*3 + likes*1 of that snapshot, and no
\* record carries a score without a snapshot.
C27_ScoreOfSnapshot ==
    \A k \in DOMAIN Posts :
        IF Posts[k].engagement = NoSnapshot
        THEN Posts[k].engagementScore = NoScore
        ELSE Posts[k].engagementScore =
                Counter(Posts[k].engagement, "replies") * 4
                + Counter(Posts[k].engagement, "reposts") * 2
                + Counter(Posts[k].engagement, "quotes") * 3
                + Counter(Posts[k].engagement, "likes")

\* a snapshot without replies and quotes was stored with the score 3 + 2
C27_Witness ==
    /\ Len(Posts) = 7
    /\ Posts[1].engagement # NoSnapshot
    /\ Posts[7].engagement # NoSnapshot
    /\ Posts[1].engagement.replies = Missing
    /\ Posts[1].engagement.likes = 3
    /\ Posts[1].engagementScore = 5
    /\ Posts[7].engagement.quotes = 2
    /\ Posts[7].engagementScore = 14

(***************************************************************************)
(* The persisted files under every entrypoint: a scheduler run, an         *)
(* engagement collection and a buzz reply run over histories and a ledger  *)
(* that earlier runs have left, some of their records at the retention     *)
(* cutoff                                                                  *)
(***************************************************************************)
\* dates of the records found: past the cutoff, on it, inside it, and today
AgedDates ==
    {0 - HISTORY_RETENTION_DAYS * TicksPerDay - 1,
     0 - HISTORY_RETENTION_DAYS * TicksPerDay,
     0 - HISTORY_RETENTION_DAYS * TicksPerDay + 1,
     0}

\* a reply dated before the retention cutoff of time 0
AgedReply ==
    [date |-> 0 - HISTORY_RETENTION_DAYS * TicksPerDay - 1, originalThreadId |-> 10,
     originalAccount |-> "a1", replyId |-> 100]

StoreLedgers ==
    {<<>>, <<ExpiredReply>>, <<AgedReply>>, <<AgedReply>> \o EarlierReplies(1)}

InitStore ==
    /\ InitConfig
    /\ now = 0
    /\ \E d \in [Accounts -> AgedDates] :
          history = [a \in Accounts |-> <<Entry("aruaru", NoKey, 1, a, d[a])>>]
    /\ DRY_RUN = FALSE
    /\ FORCE_CATEGORY = "none"
    /\ trendResult = <<>>
    /\ category = Undefined
    /\ selPath = "none"
    /\ selRandom = [num |-> 0, den |-> 1]
    /\ cur = "none"
    /\ depth = 0
    /\ topicKey = NoKey
    /\ postText = "none"
    /\ threadId = DRY_RUN_ID
    /\ pubOutcome = "none"
    /\ appended = 0
    /\ exitCode = 0 - 1
    /\ InitPub
    /\ apiModule = "polling"
    /\ InitAdjIdle
    /\ InitGenIdle
    /\ InitExtIdle
    /\ replyLedger \in StoreLedgers
    /\ buzzPc = "idle"
    /\ todayCount = 0
    /\ remainingSlots = 0
    /\ candidates = <<>>
    /\ buzzIdx = 0
    /\ repliedCount = 0
    /\ publishedCount = 0
    /\ buzzRuns = MaxRuns - 1
    /\ buzzTally = NoTally
    /\ buzzExit = 0 - 1

NextStore ==
    \/ Run
    \/ EngStart
    \/ EngFetch
    \/ BuzzStart
    \/ BuzzItem
    \/ BuzzEnd

SpecStore == InitStore /\ [][NextStore]_vars

(***************************************************************************)
(* Claims about the persisted files (checked under SpecStore)              *)
(***************************************************************************)
\* the age of a record dated d at time t, in ticks
Age(d, t) == t - d

RetentionTicks == HISTORY_RETENTION_DAYS * TicksPerDay

\* file is what an append at time t has left of the records before, with
\* the record dated t at its end
PrunedAppend(before, file, t) ==
    /\ \A k \in DOMAIN file : ~(Age(file[k].date, t) > RetentionTicks)
    /\ Len(file) > 0
    /\ file[Len(file)].date = t
    /\ \A j \in DOMAIN before :
          Age(before[j].date, t) < RetentionTicks =>
              \E k \in 1..(Len(file) - 1) : file[k].date = before[j].date

SchedulerStep == exitCode = 0 - 1 /\ exitCode' # 0 - 1
CollectorStep == engPc' # engPc \/ engIdx' # engIdx
BuzzStep == buzzPc' # buzzPc \/ buzzIdx' # buzzIdx

\* C29: a scheduler run or an engagement collection for account X leaves the
\* history of every other account and the reply ledger as they were, what it
\* checks and what it writes are records of X; a buzz reply run takes its
\* candidates from the monitored accounts' histories and changes no history,
\* only the reply ledger.
C29_AccountPartition ==
    [][/\ SchedulerStep \/ CollectorStep =>
              /\ \A a \in Accounts \ {ACCOUNT} : history'[a] = history[a]
              /\ \A k \in DOMAIN history'[ACCOUNT] : history'[ACCOUNT][k].account = ACCOUNT
              /\ replyLedger' = replyLedger
       /\ engPc = "idle" /\ engPc' # "idle" =>
              \A i \in DOMAIN postsToCheck' :
                  \E k \in DOMAIN history[ACCOUNT] :
                      /\ history[ACCOUNT][k].threadId = postsToCheck'[i]
                      /\ Eligible(history[ACCOUNT][k])
       /\ BuzzStep =>
              /\ history' = history
              /\ \A i \in DOMAIN candidates' :
                    /\ candidates'[i].account \in STEALTH_ACCOUNTS
                    /\ \E k \in DOMAIN history[candidates'[i].account] :
                          history[candidates'[i].account][k] = candidates'[i]]_vars

\* the three entrypoints have run for the business account: its history has
\* a snapshot and a new record, the ledger a reply to the post of a1, and
\* the history of a1 is the one record it was
C29_Witness ==
    /\ ACCOUNT = "business"
    /\ appended = 1
    /\ Len(history[ACCOUNT]) = 2
    /\ engPc = "done"
    /\ collected = 1
    /\ history[ACCOUNT][1].engagement # NoSnapshot
    /\ buzzPc = "idle"
    /\ buzzRuns = MaxRuns
    /\ Len(replyLedger) > 0
    /\ replyLedger[Len(replyLedger)].originalThreadId = 1
    /\ history["a1"] = <<Entry("aruaru", NoKey, 1, "a1", 0)>>

(***************************************************************************)
(* Processes on one history file: saveHistory and updatePostEngagement     *)
(* load the file, change the copy and write the whole copy back; nothing   *)
(* keeps another process from loading or writing in between                *)
(***************************************************************************)
NumProcs == 2

Procs == 1..NumProcs

\* the calls process p can make: append its entry, or store a snapshot for
\* the post p of the file
RaceOps(p) ==
    {[kind |-> "append", id |-> 10 + p]}
    \cup {[kind |-> "update", id |-> p, engagement |-> e] : e \in EngInsights}

InitRace ==
    /\ CATEGORIES \in CategoryConfigs
    /\ ACCOUNT = "business"
    /\ PERSONA = NoPersona
    /\ now = EngNow
    /\ history = [a \in Accounts |->
                    IF a = ACCOUNT THEN [p \in Procs |-> Posted(p, 0)] ELSE <<>>]
    /\ DRY_RUN = FALSE
    /\ FORCE_CATEGORY = "none"
    /\ trendResult = <<>>
    /\ category = Undefined
    /\ selPath = "none"
    /\ selRandom = [num |-> 0, den |-> 1]
    /\ cur = "none"
    /\ depth = 0
    /\ topicKey = NoKey
    /\ postText = "none"
    /\ threadId = DRY_RUN_ID
    /\ pubOutcome = "none"
    /\ appended = 0
    /\ exitCode = 0 - 1
    /\ InitPub
    /\ apiModule = "polling"
    /\ InitAdjIdle
    /\ InitGenIdle
    /\ InitBuzzIdle
    /\ InitTierIdle
    /\ InitEngIdle
    /\ InitCallIdle
    /\ rPc = [p \in Procs |-> "ready"]
    /\ rOp \in [Procs -> UNION {RaceOps(p) : p \in Procs}]
    /\ \A p \in Procs : rOp[p] \in RaceOps(p)
    /\ rLocal = [p \in Procs |-> <<>>]
    /\ rOverlap = FALSE

\* const history = loadHistory(account) of process p
RaceLoad(p) ==
    /\ rPc[p] = "ready"
    /\ rPc' = [rPc EXCEPT ![p] = "read"]
    /\ rLocal' = [rLocal EXCEPT ![p] = loadHistory(history, ACCOUNT)]
    /\ rOverlap' = (rOverlap \/ \E q \in Procs \ {p} : rPc[q] = "read")
    /\ UNCHANGED rOp
    /\ UNCHANGED <<runVars, pubVars, adjVars, genVars, buzzVars, tierVars, engVars, callVars>>

\* the rest of the call of process p, on the copy it loaded: push, prune and
\* writeFileSync, or set the engagement fields and writeFileSync
RaceWrite(p) ==
    /\ rPc[p] = "read"
    /\ rPc' = [rPc EXCEPT ![p] = "done"]
    /\ LET seen == [history EXCEPT ![ACCOUNT] = rLocal[p]]
       IN history' = [history EXCEPT ![ACCOUNT] =
             IF rOp[p].kind = "append"
             THEN saveHistory(seen, Entry("aruaru", NoKey, rOp[p].id, ACCOUNT, now),
                              ACCOUNT, now)[ACCOUNT]
             ELSE updatePostEngagement(rLocal[p], rOp[p].id, rOp[p].engagement, now)]
    /\ UNCHANGED <<rOp, rLocal, rOverlap>>
    /\ UNCHANGED <<now, CATEGORIES, PERSONA, ACCOUNT, DRY_RUN, FORCE_CATEGORY, trendResult,
                   category, selPath, selRandom, cur, depth, topicKey, postText, threadId,
                   pubOutcome, appended, exitCode>>
    /\ UNCHANGED <<pubVars, adjVars, genVars, buzzVars, tierVars, engVars, callVars>>

NextRace == \E p \in Procs : RaceLoad(p) \/ RaceWrite(p)

SpecRace == InitRace /\ [][NextRace]_vars

(***************************************************************************)
(* Claims about interleaved processes (checked under SpecRace)             *)
(***************************************************************************)
\* the file holds what the call of process p wrote
WriteKept(p) ==
    \E k \in DOMAIN Posts :
        /\ Posts[k].threadId = rOp[p].id
        /\ rOp[p].kind = "update" => Posts[k].engagement = rOp[p].engagement

AllDone == \A p \in Procs : rPc[p] = "done"

\* C30: when no process loads the file while another holds a loaded copy,
\* the final file holds the record or the engagement every process wrote;
\* the read-modify-write is not guarded, and with interleaved processes a
\* final file without one of the writes is reached (C30_Witness).
C30_NoLossWithoutOverlap ==
    (AllDone /\ ~rOverlap) => \A p \in Procs : WriteKept(p)

\* an append and an engagement update have interleaved: both calls are
\* over, the appended record is in the file and the snapshot is not
C30_Witness ==
    /\ AllDone
    /\ rOverlap
    /\ rOp[1].kind = "append"
    /\ rOp[2].kind = "update"
    /\ WriteKept(1)
    /\ ~WriteKept(2)
    /\ \A k \in DOMAIN Posts : Posts[k].engagement = NoSnapshot

\* two appends have interleaved: the record of the first is gone
C30_LostAppend ==
    /\ AllDone
    /\ rOverlap
    /\ \A p \in Procs : rOp[p].kind = "append"
    /\ ~WriteKept(1)
    /\ WriteKept(2)

(***************************************************************************)
(* Claims about the scheduler's token check and dry run (checked under     *)
(* Spec)                                                                   *)
(***************************************************************************)
\* C31: a token check that found the credential invalid has tried exactly
\* one refresh; when the refresh failed the run has exited with a nonzero
\* status without a generation request, a publish call or a history write.
C31_AuthFailureFatal ==
    /\ [](tokenStatus \in {"refreshed", "invalid"} => refreshCalls = 1)
    /\ [](tokenStatus = "invalid" =>
            /\ exitCode > 0
            /\ postText = "none"
            /\ pubOutcome = "none"
            /\ appended = 0)
    /\ [][tokenStatus' = "invalid" /\ exitCode = 0 - 1 => history' = history]_vars

\* a run after an earlier one has left a record: the refresh failed
C31_Witness ==
    /\ tokenStatus = "invalid"
    /\ refreshCalls = 1
    /\ exitCode = 1
    /\ Len(history[ACCOUNT]) > 0

\* the run that has just exited had the dry-run switch on
DryRunEnded == exitCode # 0 - 1 /\ DRY_RUN

\* the last record of the account's history
LastRecord == history[ACCOUNT][Len(history[ACCOUNT])]

\* C32 as stated: every run with the dry-run switch on makes no token check
\* and no publish call, performs generation and appends exactly one Post
\* Record with the dry-run marker.
C32_DryRunAlwaysAppends ==
    DryRunEnded =>
        /\ tokenStatus = "none"
        /\ pubOutcome = "none"
        /\ postText # "none"
        /\ appended = 1
        /\ LastRecord.threadId = DRY_RUN_ID

\* C32: a run with the dry-run switch on makes no token check, no refresh
\* and no call of the publisher (no container create, status poll or
\* publish); it appends exactly one Post Record, with the dry-run marker as
\* its post id, when the generator returned a text, and appends nothing and
\* exits with a nonzero status when the run failed before that.
C32_DryRun ==
    DryRunEnded =>
        /\ tokenStatus = "none"
        /\ refreshCalls = 0
        /\ pubOutcome = "none"
        /\ IF postText = "text"
           THEN /\ exitCode = 0
                /\ appended = 1
                /\ LastRecord.threadId = DRY_RUN_ID
                /\ LastRecord.date = now
           ELSE /\ exitCode > 0
                /\ appended = 0

\* a dry run after a published post: the text was generated and the record
\* with the dry-run marker follows the record of the post
C32_Witness ==
    /\ DryRunEnded
    /\ exitCode = 0
    /\ postText = "text"
    /\ tokenStatus = "none"
    /\ appended = 1
    /\ Len(history[ACCOUNT]) = 2
    /\ history[ACCOUNT][1].threadId # DRY_RUN_ID
    /\ LastRecord.threadId = DRY_RUN_ID

(***************************************************************************)
(* Claims about the scheduler and a generator that returns null (checked   *)
(* under SpecOptions)                                                      *)
(***************************************************************************)
\* C36: a run whose generator returned null has made no call of the
\* publisher, has appended no Post Record and has exited with status 0.
C36_NullAbandonsPublish ==
    /\ [](postText = "null" =>
            /\ exitCode = 0
            /\ pubOutcome = "none"
            /\ threadId = DRY_RUN_ID
            /\ appended = 0)
    /\ [][postText' = "null" /\ exitCode = 0 - 1 =>
            \A a \in Accounts :
                /\ Len(history'[a]) = Len(history[a])
                /\ \A k \in DOMAIN history[a] :
                      history'[a][k].threadId = history[a][k].threadId]_vars

\* the run of a stealth account with a valid token and a post in its
\* history got null from the generator
C36_Witness ==
    /\ postText = "null"
    /\ exitCode = 0
    /\ IS_STEALTH(ACCOUNT)
    /\ ~DRY_RUN
    /\ tokenStatus = "valid"
    /\ Len(history[ACCOUNT]) = 1
    /\ history[ACCOUNT][1].threadId # DRY_RUN_ID

(***************************************************************************)
(* selectCategory over a history with engagement: the inputs are drawn,    *)
(* then it is called once                                                  *)
(***************************************************************************)
\* the clock of the call: records dated 0 are out of the category cooldown
\* and inside the learning window
OverrideNow == (CATEGORY_COOLDOWN_DAYS + 1) * TicksPerDay

\* threads-persona-<account>.json of the stealth account
OverridePersona ==
    [present |-> TRUE,
     categories |-> <<[id |-> "x", weight |-> 1], [id |-> "y", weight |-> 4],
                      [id |-> "site", weight |-> 2]>>]

\* a Post Record of account a, category c, score sc, dated d
ScoredFor(a, c, sc, d) == [Scored(c, sc, d) EXCEPT !.account = a]

\* histories of account a: none, posts whose engagement lowers x and raises
\* y, the same posts without engagement, and the same with x cooling down
OverrideHistories(a) ==
    LET with(sx, sy, sz) ==
            <<ScoredFor(a, "x", sx, 0), ScoredFor(a, "x", sx, 0), ScoredFor(a, "y", sy, 0),
              ScoredFor(a, "y", sy, 0), ScoredFor(a, "z", sz, 0)>>
    IN {<<>>, with(0, 1000, 10), with(NoScore, NoScore, NoScore),
        with(0, 1000, 10) \o <<ScoredFor(a, "x", NoScore, OverrideNow)>>}

InitOverride ==
    /\ CATEGORIES \in AdjusterConfigs
    /\ ACCOUNT \in Accounts
    /\ PERSONA = IF IS_STEALTH(ACCOUNT) THEN OverridePersona ELSE NoPersona
    /\ now = OverrideNow
    /\ history \in {[a \in Accounts |-> IF a = ACCOUNT THEN h ELSE <<>>] :
                        h \in OverrideHistories(ACCOUNT)}
    /\ DRY_RUN = FALSE
    /\ FORCE_CATEGORY \in {"none", "x"}
    /\ trendResult \in {<<>>} \cup {<<k>> : k \in Keywords}
    /\ category = Undefined
    /\ selPath = "none"
    /\ selRandom = [num |-> 0, den |-> 1]
    /\ cur = "none"
    /\ depth = 0
    /\ topicKey = NoKey
    /\ postText = "none"
    /\ threadId = DRY_RUN_ID
    /\ pubOutcome = "none"
    /\ appended = 0
    /\ exitCode = 0 - 1
    /\ InitPub
    /\ InitOther

SpecOverride == InitOverride /\ [][NextSel]_vars

(***************************************************************************)
(* Claims about the persona override (checked under SpecOverride)          *)
(***************************************************************************)
\* the history without what the engagement collection has written
Unscored(posts) ==
    [k \in DOMAIN posts |->
        [posts[k] EXCEPT !.engagement = NoSnapshot, !.engagementScore = NoScore,
                         !.engagementUpdatedAt = NotUpdated]]

\* c is an entry of the list cats, with the weight it has there
EntryOf(c, cats) == \E i \in DOMAIN cats : cats[i] = c

\* C33: what the Selector has drawn for a stealth account is an entry of the
\* persona profile with the persona's weight, and it is what the Selector
\* draws from the same history without any engagement; what it has drawn
\* for the business account is an entry of the Weight Adjuster's output.
C33_PersonaOverride ==
    selPath \in {"weighted", "fallback"} /\ category # Undefined =>
        IF IS_STEALTH(ACCOUNT)
        THEN /\ EntryOf(category, PERSONA.categories)
             /\ category = selectCategory(CATEGORIES, PERSONA, FORCE_CATEGORY,
                                          Unscored(history[ACCOUNT]),
                                          Len(trendResult) > 0, now, selRandom).cat
        ELSE EntryOf(category, getAdjustedWeights(CATEGORIES, history[ACCOUNT], now))

\* the stealth account has a history whose engagement would change the base
\* weights, and the draw returned y with the persona's weight 4
C33_Witness ==
    /\ IS_STEALTH(ACCOUNT)
    /\ selPath = "weighted"
    /\ getAdjustedWeights(CATEGORIES, history[ACCOUNT], now) # CATEGORIES
    /\ category = [id |-> "y", weight |-> 4]

\* the business account with the same engagement: the draw returned y with
\* the adjusted weight, where the base weights give x
C33_AdjustedDraw ==
    /\ ~IS_STEALTH(ACCOUNT)
    /\ selPath = "weighted"
    /\ category.id = "y"
    /\ category.weight # FindCategory(CATEGORIES, "y").weight
    /\ selectCategory(CATEGORIES, PERSONA, FORCE_CATEGORY, Unscored(history[ACCOUNT]),
                      Len(trendResult) > 0, now, selRandom).cat.id = "x"

(***************************************************************************)
(* buildPrompt on its own: the selected category and the history are       *)
(* drawn, then main calls it once                                          *)
(***************************************************************************)
\* categories the Selector has returned
BuildCategories ==
    {[id |-> c, weight |-> 1] : c \in {"aruaru", "koukai", "taiken", "kisetsu", "shippai"}}

\* histories of account a: for each of three topic sources, its topics
\* posted today or not at all
BuildHistories(a) ==
    LET all(c) == [k \in 1..PoolSize |-> Entry(c, KeyOf(c, k - 1, 0), 1, a, 0)]
    IN {(IF "aruaru" \in S THEN all("aruaru") ELSE <<>>)
        \o (IF "koukai" \in S THEN all("koukai") ELSE <<>>)
        \o (IF "taiken" \in S THEN all("taiken") ELSE <<>>)
        : S \in SUBSET {"aruaru", "koukai", "taiken"}}

InitBuild ==
    /\ CATEGORIES \in CategoryConfigs
    /\ ACCOUNT \in Accounts
    /\ PERSONA \in IF IS_STEALTH(ACCOUNT) THEN PersonaConfigs ELSE {NoPersona}
    /\ now = 0
    /\ history \in {[a \in Accounts |-> IF a = ACCOUNT THEN h ELSE <<>>] :
                        h \in BuildHistories(ACCOUNT)}
    /\ DRY_RUN = FALSE
    /\ FORCE_CATEGORY = "none"
    /\ trendResult = <<>>
    /\ category \in BuildCategories
    /\ selPath = "weighted"
    /\ selRandom = [num |-> 0, den |-> 1]
    /\ cur = "none"
    /\ depth = 0
    /\ topicKey = NoKey
    /\ postText = "none"
    /\ threadId = DRY_RUN_ID
    /\ pubOutcome = "none"
    /\ appended = 0
    /\ exitCode = 0 - 1
    /\ InitPub
    /\ InitOther

\* const { userPrompt, topicKey } = buildPrompt(category, dataSources,
\* trendResult) in main; what it throws ends the process with status 1
Build ==
    /\ cur = "none"
    /\ exitCode = 0 - 1
    /\ \E res \in buildPrompt(category.id, 0, IS_STEALTH(ACCOUNT),
                              loadHistory(history, ACCOUNT), trendResult, now) :
          /\ cur' = res.cat
          /\ depth' = res.redirects
          /\ topicKey' = res.key
          /\ exitCode' = IF res.status = "ok" THEN 0 - 1 ELSE 1
    /\ UNCHANGED <<now, history, CATEGORIES, PERSONA, ACCOUNT, DRY_RUN, FORCE_CATEGORY,
                   trendResult, category, selPath, selRandom, postText, threadId,
                   pubOutcome, appended>>
    /\ UNCHANGED pubVars
    /\ UNCHANGED otherVars

NextBuild == Build

SpecBuild == InitBuild /\ [][NextBuild]_vars

(***************************************************************************)
(* Claims about the Prompt Builder (checked under SpecBuild)               *)
(***************************************************************************)
\* C34: for every history, buildPrompt returns a prompt (a topic key) after
\* at most one redirect to the branch of another category.
C34_OneRedirect ==
    cur # "none" =>
        /\ exitCode = 0 - 1
        /\ topicKey # NoKey
        /\ depth <= 1

\* the call returns after two redirects: taiken, aruaru, koukai
C34_TwoRedirects ==
    /\ category.id = "taiken"
    /\ cur = "koukai"
    /\ depth = 2
    /\ exitCode = 0 - 1

\* the call never returns: aruaru and koukai redirect to each other until
\* the stack is used up
C34_Overflow ==
    /\ category.id = "aruaru"
    /\ depth = MaxDepth
    /\ topicKey = NoKey
    /\ exitCode = 1

(***************************************************************************)
(* Partial-batch isolation in the reply loop (checked under SpecBuzz)      *)
(***************************************************************************)

\* a pass of the loop in which handling the candidate failed
ItemFailed ==
    /\ buzzPc = "loop"
    /\ \/ buzzTally'.failed = buzzTally.failed + 1
       \/ buzzTally'.fetchFailed = buzzTally.fetchFailed + 1

\* C35: a failure while handling one candidate (fetching its engagement,
\* generating its reply text, publishing the reply) skips that candidate
\* without a ledger entry and the loop goes on with the next candidate; the
\* run ends with an error only if every attempted item failed.
C35_PartialBatchIsolation ==
    /\ [][ItemFailed =>
            /\ replyLedger' = replyLedger
            /\ buzzIdx' = buzzIdx + 1
            /\ buzzPc' = "loop"]_vars
    /\ [](buzzExit = 1 => buzzTally.failed = buzzTally.attempted)

(***************************************************************************)
(* Engagement backfill is the only change to a stored record (SpecEng)     *)
(***************************************************************************)

\* after is before with at most the engagement fields of one record of post
\* id changed, and is before itself when no record has that id
BackfillOf(before, after, id) ==
    /\ Len(after) = Len(before)
    /\ IF \A k \in 1..Len(before) : before[k].threadId # id
       THEN after = before
       ELSE \E k \in 1..Len(before) :
               /\ before[k].threadId = id
               /\ \A j \in 1..Len(before) : j # k => after[j] = before[j]
               /\ after[k] = [before[k] EXCEPT
                                 !.engagement = after[k].engagement,
                                 !.engagementScore = after[k].engagementScore,
                                 !.engagementUpdatedAt = after[k].engagementUpdatedAt]

\* a post id no record of the histories has
AbsentId == ENGAGEMENT_BATCH + 2

\* post ids an update can name: one of a record and one of no record
BackfillIds == {1, AbsentId}

\* C37: an engagement update for post id T changes only the engagement,
\* engagementScore and engagementUpdatedAt fields of one record whose post id
\* is T, leaves every other field and every other record unchanged, neither
\* adds nor removes records, and writes nothing when no record has post id T.
C37_BackfillOnly ==
    /\ [][engPc = "loop" /\ engIdx' = engIdx + 1 =>
            /\ BackfillOf(history[ACCOUNT], history'[ACCOUNT], engFetched'[engIdx])
            /\ \A a \in Accounts \ {ACCOUNT} : history'[a] = history[a]]_vars
    /\ [](\A id \in BackfillIds, e \in EngInsights :
            BackfillOf(Posts, updatePostEngagement(Posts, id, e, now), id))

\* a run has written the snapshot of post 1 and left the other records alone,
\* and no record has the absent post id
C37_Witness ==
    /\ engPc = "done"
    /\ Len(Posts) = Len(MixedHistory)
    /\ Posts[1].engagement # NoSnapshot
    /\ Posts[1].engagementUpdatedAt = now
    /\ Posts[1].category = MixedHistory[1].category
    /\ \A k \in 2..6 : Posts[k] = MixedHistory[k]
    /\ \A k \in 1..Len(Posts) : Posts[k].threadId # AbsentId

(***************************************************************************)
(* The stored category under a redirect (checked under Spec)               *)
(***************************************************************************)

\* C39: the category stored in a Post Record is the category the Selector
\* returned, also when the Prompt Builder redirected to another category's
\* branch; the stored topicKey is then a key of the redirect category, so the
\* record counts for the cooldown of the selected category and not for that
\* of the category whose topic was used.
C39_StoredCategory ==
    (exitCode = 0 /\ appended = 1) =>
        /\ LastRecord.category = category.id
        /\ LastRecord.topicKey = topicKey
        /\ depth >= 1 =>
              /\ LastRecord.topicKey[1] = cur
              /\ cur # category.id => LastRecord.category # cur

\* a run whose prompt came from the branch of another category than the one
\* selected has appended its record
C39_Witness ==
    /\ exitCode = 0
    /\ appended = 1
    /\ depth >= 1
    /\ cur # category.id
    /\ LastRecord.category = category.id
    /\ LastRecord.topicKey[1] = cur

(***************************************************************************)
(* Spacing of the published replies of one run (checked under SpecBuzz)    *)
(***************************************************************************)

\* C38: in a run, each reply that is published is preceded by its own
\* randomized pre-reply delay, and between two consecutive published replies
\* the process waits at least the minimum reply interval: no two replies are
\* published back to back.
C38_ReplySpacing ==
    [][publishedCount' = publishedCount + 1 =>
        /\ \E delaySec \in DelaySecs :
              /\ randomDelay(DRY_RUN, delaySec) > 0
              /\ buzzTally'.gap = buzzTally.slept + INSIGHTS_PAUSE_MS
                                  + randomDelay(DRY_RUN, delaySec)
        /\ publishedCount >= 1 => buzzTally'.gap >= MIN_REPLY_INTERVAL_MS]_vars

\* a run has published its second reply, after the interval and the delay
C38_Witness ==
    /\ publishedCount = 2
    /\ buzzPc = "loop"
    /\ buzzTally.gap > MIN_REPLY_INTERVAL_MS

(***************************************************************************)
(* A run of main on a history file that is missing or unparseable          *)
(***************************************************************************)

InitFile ==
    /\ InitConfig
    /\ now = 0
    /\ \E file \in {NoFile, BadFile} :
          history = [a \in Accounts |-> IF a = ACCOUNT THEN file ELSE <<>>]
    /\ DRY_RUN = FALSE
    /\ FORCE_CATEGORY = "none"
    /\ trendResult = <<>>
    /\ category = Undefined
    /\ selPath = "none"
    /\ selRandom = [num |-> 0, den |-> 1]
    /\ cur = "none"
    /\ depth = 0
    /\ topicKey = NoKey
    /\ postText = "none"
    /\ threadId = DRY_RUN_ID
    /\ pubOutcome = "none"
    /\ appended = 0
    /\ exitCode = 0 - 1
    /\ InitPub
    /\ InitOther

SpecFile == InitFile /\ [][Next]_vars

\* topic keys a cooldown check can be asked about
FileKeys == {KeyOf(c, i, now) : c \in TwoDraw \cup OneDraw, i \in PoolIdx}

\* C40: a history file that is missing or cannot be parsed is read as an
\* empty history; the cooldown and dedup checks then report nothing as
\* cooling down, and the next append rewrites the file so that it contains
\* only the newly appended record.
C40_UnreadableIsEmpty ==
    /\ [](\A a \in Accounts :
            Unreadable(history[a]) =>
               /\ loadHistory(history, a) = <<>>
               /\ \A c \in TwoDraw \cup OneDraw :
                     ~isCategoryCoolingDown(loadHistory(history, a), c, now)
               /\ \A key \in FileKeys :
                     ~isTopicCoolingDown(loadHistory(history, a), key, now))
    /\ [][(Unreadable(history[ACCOUNT]) /\ appended' = 1) =>
            history'[ACCOUNT] =
                <<Entry(category'.id, topicKey', threadId', ACCOUNT, now')>>]_vars

\* a run that found the file unreadable has published and left a file with
\* its own record alone
C40_Witness ==
    /\ exitCode = 0
    /\ appended = 1
    /\ ~DRY_RUN
    /\ ~Unreadable(history[ACCOUNT])
    /\ Len(history[ACCOUNT]) = 1
    /\ LastRecord.date = now
=============================================================================
